---------------------------- MODULE Spec2Model ----------------------------
(***************************************************************************)
(* A model of the configuration / projection / query core of go-perf-v2:   *)
(*   - ConfigSet: the hash-consing store of key/value and tuple Configs,   *)
(*   - Schema: the growable projection of records into Configs,            *)
(*   - kvql: the query tokenizer and parser,                               *)
(*   - Filter / Match: the per-value matcher.                              *)
(*   - benchfmt: Result file configuration, NameParts and the Writer,      *)
(*   - NewConfigHeader and ProjectFileConfig.                              *)
(* Strings are sequences of one-character strings ("" is <<>>), so that    *)
(* concatenation, offsets and byte order are those of the program.         *)
(***************************************************************************)
EXTENDS Integers, Sequences, FiniteSets, TLC

VARIABLES
    \* ---- ConfigSet (src/unnamed/part_010) ----
    cfgs,       \* the Configs allocated so far; a *Config is an index, nil is 0
    kvs,        \* ConfigSet.kvs:    <<key, val>>    -> *Config
    tuples,     \* ConfigSet.tuples: <<prefix, elt>> -> *Config
    kvHist,     \* history: <<key, val>> -> the handles KeyVal returned for it
    tupHist,    \* history: elts -> the handles Tuple(elts...) returned for it
    csLast,     \* history: the last call, what it returned, and whether it allocated nothing

    \* ---- kvql.Parse (parse.go) ----
    qform,      \* the input as it was put together: terms and connectives, or pieces
    query,      \* the query string
    pres,       \* what Parse(query) returned, once it was called

    \* ---- Filter / Match (filter.go) ----
    fform,      \* the queries of the run: q1, (q2,) and NOT / AND / OR of them
    res,        \* the benchfmt.Result: FileConfig and Values
    filters,    \* what NewFilter returned for the queries built so far
    mtab,       \* history: query index -> the Match of its Filter, and its input
    fapp,       \* history: the calls of Match.Apply

    \* ---- ProjectionParser / Schema (schema.go) ----
    configSeed, \* the seed of the checksums of rows
    pp,         \* the ProjectionParser
    schemas,    \* the Schemas its Parse calls returned
    perrs,      \* history: the calls of its Parse: input, error, Schema, parser before
    plog,       \* history: the calls of Project and ProjectValues, and the Parse calls before each
    lessTab,    \* history: the last comparisons of all Configs of a Schema
    clog,       \* history: the last call of Less, SortConfigs or Get on any Configs

    \* ---- benchfmt.Result (result.go) ----
    result,     \* the Result: the array behind FileConfig, its length, configPos
    rhist,      \* history: the value last set for each key, the last call, the kinds of deletion made
    fullName,   \* the full benchmark name given to NameParts
    nparts,     \* what NameParts(fullName) returned, once it was called

    \* ---- builtinOrders (schema.go) ----
    ordArgs,    \* the two strings given to the numeric order
    ordRet,     \* what the numeric order returned for them, in both directions, once it was called

    \* ---- benchfmt.Writer (src/unnamed/part_021) ----
    writer,     \* the Writer: first, fileConfig, order
    wlog,       \* history: the last Write: the Writer and FileConfig it started from, the lines it wrote

    \* ---- ProjectFileConfig (projection.go) ----
    pfc,        \* the ProjectFileConfig: order, known, exclude
    pfcLog      \* history: the calls of its Project: the file configuration, the Config returned, order after the call

csVars == <<cfgs, kvs, tuples, kvHist, tupHist, csLast>>
parseVars == <<qform, query, pres>>
filterVars == <<fform, res, filters, mtab, fapp>>
schemaVars == <<configSeed, pp, schemas, perrs, plog, lessTab, clog>>
resultVars == <<result, rhist, fullName, nparts>>
orderVars == <<ordArgs, ordRet>>
writerVars == <<writer, wlog>>
pfcVars == <<pfc, pfcLog>>

vars == <<csVars, parseVars, filterVars, schemaVars, resultVars, orderVars, writerVars, pfcVars>>

----------------------------------------------------------------------------
(* Bounds of the model.                                                    *)

MaxNodes == 3      \* Configs allocated in one ConfigSet
MaxElts == 2       \* elements passed to one Tuple / Append call
MaxLexemes == 3    \* pieces a free-form query string is put together from
MaxTerms == 4      \* terms of a query of terms and connectives
MaxRest == 2       \* words of matchBuilder.rest the largest Result needs
MaxApply == 2      \* calls of Match.Apply on one Result
MaxParses == 2     \* calls of ProjectionParser.Parse on one parser
MaxProjects == 3   \* calls of Project and ProjectValues
MaxSort == 2       \* Configs in the slice passed to SortConfigs
MaxName == 5       \* characters of a full benchmark name
MaxNum == 3        \* characters of a value given to the numeric order
MaxHeader == 3     \* Configs in the slice passed to NewConfigHeader
MaxFileProjects == 3   \* calls of ProjectFileConfig.Project

----------------------------------------------------------------------------
(* ConfigSet / Config                                                      *)

nil == 0

\* the one element of a singleton set. Only({e(x) : x \in {v}}) is
\* LET x == v IN e(x) with v evaluated once, which keeps the recursive
\* definitions below linear in the length of their input.
Only(S) == CHOOSE x \in S : TRUE

CSKeys == {<<"a">>, <<"b">>}
CSVals == {<<"1">>, <<"2">>}

\* &Config{configKV: kv}
NewKV(key, val) ==
    [key |-> key, val |-> val, prefix |-> nil, elt |-> nil, tupleLen |-> 0]

\* &Config{configTuple: key, tupleLen: n}
NewTuple(prefix, elt, n) ==
    [key |-> <<>>, val |-> <<>>, prefix |-> prefix, elt |-> elt, tupleLen |-> n]

\* map lookup: the stored pointer, or nil when the key is absent
MapGet(m, k) == IF k \in DOMAIN m THEN m[k] ELSE nil

\* mutant of KeyValStep: the new leaf is not stored in kvs
M_KeyValStep(cs, ks, key, val) ==
    LET c == MapGet(ks, <<key, val>>)
    IN  IF c = nil
        THEN [cfgs |-> Append(cs, NewKV(key, val)), kvs |-> ks, ret |-> Len(cs) + 1]
        ELSE [cfgs |-> cs, kvs |-> ks, ret |-> c]

\* ConfigSet.KeyVal as a state transformer: [cfgs, kvs, ret]
KeyValStep(cs, ks, key, val) ==
    LET kv == <<key, val>>
        c  == MapGet(ks, kv)
    IN  IF c = nil
        THEN [cfgs |-> Append(cs, NewKV(key, val)),
              kvs  |-> (kv :> (Len(cs) + 1)) @@ ks,
              ret  |-> Len(cs) + 1]
        ELSE [cfgs |-> cs, kvs |-> ks, ret |-> c]

\* mutant of AppendIter: found starts out false, so the table is never probed
M_AppendIter(st, baseLen, elts, i) ==
    [cfgs   |-> Append(st.cfgs, NewTuple(st.prefix, elts[i], baseLen + i)),
     tuples |-> (<<st.prefix, elts[i]>> :> (Len(st.cfgs) + 1)) @@ st.tuples,
     prefix |-> Len(st.cfgs) + 1,
     found  |-> FALSE]

\* One iteration of the loop of ConfigSet.Append, for elts[i].
\* st = [cfgs, tuples, prefix, found]
AppendIter(st, baseLen, elts, i) ==
    LET key == <<st.prefix, elts[i]>>
        c   == MapGet(st.tuples, key)
    IN  IF st.found /\ c # nil
        THEN [st EXCEPT !.prefix = c]
        ELSE [cfgs   |-> Append(st.cfgs, NewTuple(key[1], key[2], baseLen + (i - 1) + 1)),
              tuples |-> (key :> (Len(st.cfgs) + 1)) @@ st.tuples,
              prefix |-> Len(st.cfgs) + 1,
              found  |-> FALSE]

RECURSIVE AppendLoop(_, _, _, _)
AppendLoop(st, baseLen, elts, i) ==
    IF i > Len(elts) THEN st
    ELSE Only({AppendLoop(st2, baseLen, elts, i + 1) : st2 \in {AppendIter(st, baseLen, elts, i)}})

\* ConfigSet.Append as a state transformer: [cfgs, tuples, ret]
AppendStep(cs, ts, base, elts) ==
    LET baseLen == IF base # nil THEN cs[base].tupleLen ELSE 0
    IN  Only({[cfgs |-> st.cfgs, tuples |-> st.tuples, ret |-> st.prefix] :
              st \in {AppendLoop([cfgs |-> cs, tuples |-> ts, prefix |-> base, found |-> TRUE],
                                 baseLen, elts, 1)}})

\* ConfigSet.Tuple
TupleStep(cs, ts, elts) == AppendStep(cs, ts, nil, elts)

Handles == 0 .. Len(cfgs)

\* a base is nil or a tuple Config (part_010:165); nil is Tuple's case
Bases == {h \in 1 .. Len(cfgs) : cfgs[h].tupleLen > 0}

EltSeqs == UNION {[1 .. n -> Handles] : n \in 0 .. MaxElts}

Note(hist, k, h) ==
    IF k \in DOMAIN hist THEN [hist EXCEPT ![k] = @ \cup {h}] ELSE (k :> {h}) @@ hist

CSStart ==
    /\ cfgs = <<>>
    /\ kvs = <<>>
    /\ tuples = <<>>
    /\ kvHist = <<>>
    /\ tupHist = <<>>
    /\ csLast = [op |-> "none", hit |-> FALSE, skipped |-> FALSE]

\* the other components, not in use
NotCalled == [called |-> FALSE]
ParseIdle == qform = [terms |-> <<>>, conns |-> <<>>, pieces |-> <<>>] /\ query = <<>> /\ pres = NotCalled

FilterIdle ==
    /\ fform = [op |-> "none", qs |-> <<>>]
    /\ res = [FileConfig |-> <<>>, FullName |-> <<>>, Values |-> <<>>]
    /\ filters = <<>>
    /\ mtab = <<>>
    /\ fapp = <<>>

\* the Result and the name while another part of the program runs
ResultIdle ==
    /\ result = [FileConfig |-> <<>>, len |-> 0, configPos |-> [isNil |-> TRUE, m |-> <<>>]]
    /\ rhist = [last |-> <<>>, op |-> [name |-> "none"], dels |-> {}]
    /\ fullName = <<>>
    /\ nparts = [called |-> FALSE]

\* the arguments of the numeric order while another part of the program runs
OrderIdle == ordArgs = <<>> /\ ordRet = [called |-> FALSE]

WriterIdle ==
    /\ writer = [first |-> TRUE, fileConfig |-> <<>>, order |-> <<>>]
    /\ wlog = [called |-> FALSE]

\* the file configuration projection while another part of the program runs
PFCIdle ==
    /\ pfc = [order |-> <<>>, known |-> {}, exclude |-> {}]
    /\ pfcLog = <<>>

SchemaIdle ==
    /\ configSeed = 0
    /\ pp = [configKeys |-> {}, fullnameKeys |-> <<>>, haveConfig |-> FALSE,
             haveFullname |-> FALSE, fullExtractor |-> [kind |-> "nil"]]
    /\ schemas = <<>>
    /\ perrs = <<>>
    /\ plog = <<>>
    /\ lessTab = [s |-> 0, tab |-> <<>>]
    /\ clog = [op |-> "none"]

CSInit == CSStart /\ ParseIdle /\ FilterIdle /\ SchemaIdle /\ ResultIdle /\ OrderIdle /\ WriterIdle /\ PFCIdle

KeyVal(key, val) ==
    LET r == KeyValStep(cfgs, kvs, key, val)
    IN  /\ Len(r.cfgs) <= MaxNodes
        /\ cfgs' = r.cfgs
        /\ kvs' = r.kvs
        /\ kvHist' = Note(kvHist, <<key, val>>, r.ret)
        /\ csLast' = [skipped |-> csLast.skipped \/ Len(r.cfgs) >= Len(cfgs) + 2,
                     op |-> "KeyVal", hit |-> r.cfgs = cfgs]
        /\ UNCHANGED <<tuples, tupHist>>

Tuple(elts) ==
    LET r == TupleStep(cfgs, tuples, elts)
    IN  /\ Len(r.cfgs) <= MaxNodes
        /\ cfgs' = r.cfgs
        /\ tuples' = r.tuples
        /\ tupHist' = Note(tupHist, elts, r.ret)
        /\ csLast' = [skipped |-> csLast.skipped \/ Len(r.cfgs) >= Len(cfgs) + 2,
                     op |-> "Tuple", hit |-> r.cfgs = cfgs /\ elts # <<>>,
                     base |-> nil, elts |-> elts, ret |-> r.ret]
        /\ UNCHANGED <<kvs, kvHist>>

AppendTo(base, elts) ==
    LET r == AppendStep(cfgs, tuples, base, elts)
    IN  /\ Len(r.cfgs) <= MaxNodes
        /\ cfgs' = r.cfgs
        /\ tuples' = r.tuples
        /\ csLast' = [skipped |-> csLast.skipped \/ Len(r.cfgs) >= Len(cfgs) + 2,
                     op |-> "Append", hit |-> r.cfgs = cfgs /\ elts # <<>>,
                     base |-> base, elts |-> elts, ret |-> r.ret]
        /\ UNCHANGED <<kvs, kvHist, tupHist>>

CSNext ==
    \/ \E key \in CSKeys, val \in CSVals : KeyVal(key, val)
    \/ \E elts \in EltSeqs : Tuple(elts)
    \/ \E base \in Bases \cup {nil}, elts \in EltSeqs : AppendTo(base, elts)

SpecConfigSet == CSInit /\ [][CSNext /\ UNCHANGED <<parseVars, filterVars, schemaVars, resultVars, orderVars, writerVars, pfcVars>>]_vars

----------------------------------------------------------------------------
(* Claims about ConfigSet                                                  *)

\* C1: within one ConfigSet, after any sequence of KeyVal, Tuple and Append
\* calls, the handles KeyVal returned for two (key, val) pairs are the same
\* handle if and only if the pairs are equal: one leaf per pair, returned by
\* the first call and by every later one.
C1_KeyValCanonical ==
    \A p1 \in DOMAIN kvHist, p2 \in DOMAIN kvHist :
        \A h1 \in kvHist[p1], h2 \in kvHist[p2] :
            (h1 = h2) <=> (p1 = p2)

\* C1 witness: a KeyVal call that returned an existing leaf, made after tuples
\* were built and with two different pairs already asked for.
C1_Witness ==
    /\ csLast.op = "KeyVal" /\ csLast.hit
    /\ tuples # <<>>
    /\ Cardinality(DOMAIN kvHist) >= 2

\* every tuple Config is the one the table holds for its (prefix, elt) pair
TupleTableUnique ==
    \A h1 \in 1 .. Len(cfgs), h2 \in 1 .. Len(cfgs) :
        (/\ cfgs[h1].tupleLen > 0
         /\ cfgs[h2].tupleLen > 0
         /\ cfgs[h1].prefix = cfgs[h2].prefix
         /\ cfgs[h1].elt = cfgs[h2].elt) => h1 = h2

\* C2: the handles Tuple returned for two element lists are the same handle
\* if and only if the lists have the same length and the same handle at every
\* position, and no two tuple Configs share a (prefix, element) pair.
C2_TupleCanonical ==
    /\ \A e \in DOMAIN tupHist, f \in DOMAIN tupHist :
           \A h1 \in tupHist[e], h2 \in tupHist[f] :
               (h1 = h2) <=>
                   (Len(e) = Len(f) /\ \A i \in 1 .. Len(e) : e[i] = f[i])
    /\ TupleTableUnique

\* C2 witness: a Tuple call that allocated nothing, after a call that
\* allocated two Configs at once (the second without probing the table), and
\* with a list and its one-element prefix both asked for.
C2_Witness ==
    /\ csLast.op = "Tuple" /\ csLast.hit /\ csLast.skipped
    /\ \E e \in DOMAIN tupHist, f \in DOMAIN tupHist :
           Len(e) >= 2 /\ Len(f) = 1 /\ f[1] = e[1]


----------------------------------------------------------------------------
(* kvql: Tokenize (tok.go)                                                 *)

\* q[from .. to], 1-based and inclusive; empty when to < from
Slice(q, from, to) == [k \in 1 .. (IF to < from THEN 0 ELSE to - from + 1) |-> q[from + k - 1]]

\* unicode.IsSpace, on the characters of the model's alphabet
IsSpaceCh(ch) == ch \in {" ", "\t", "\n"}

\* isOp
isOp(ch) == ch \in {"(", ")", ":", "@", ","}

EOFKind == "EOF"     \* Tok.Kind 0, the end-of-string token

NoErr == [Off |-> -1, Msg |-> "nil", Tok |-> <<>>]
SyntaxError(off, msg, tok) == [Off |-> off, Msg |-> msg, Tok |-> tok]

\* the position of the closing quote of a quoted word opened at pos, or
\* Len(q) + 1 when there is none
RECURSIVE QuoteEnd(_, _)
QuoteEnd(q, p) ==
    IF p <= Len(q) /\ q[p] # "\"" THEN QuoteEnd(q, p + 1) ELSE p

\* the position of the first space or operator at or after p, or Len(q) + 1
RECURSIVE WordEnd(_, _)
WordEnd(q, p) ==
    IF p <= Len(q) /\ ~(IsSpaceCh(q[p]) \/ isOp(q[p])) THEN WordEnd(q, p + 1) ELSE p

\* tokWord at position pos (offset pos - 1): [next, word, quoted, err]
tokWord(q, pos) ==
    IF q[pos] = "\""
    THEN Only({IF e = Len(q) + 1
               THEN [next |-> e, word |-> <<>>, quoted |-> FALSE,
                     err |-> SyntaxError(pos - 1, "missing end quote", <<>>)]
               ELSE [next |-> e + 1, word |-> Slice(q, pos + 1, e - 1), quoted |-> TRUE,
                     err |-> NoErr]
               : e \in {QuoteEnd(q, pos + 1)}})
    ELSE Only({[next |-> e, word |-> Slice(q, pos, e - 1), quoted |-> FALSE, err |-> NoErr]
               : e \in {WordEnd(q, pos)}})

Tok(kind, off, tok) == [Kind |-> kind, Off |-> off, Tok |-> tok]

\* the loop of Tokenize from position pos with the tokens toks so far
RECURSIVE TokenizeFrom(_, _, _)
TokenizeFrom(q, pos, toks) ==
    IF pos > Len(q)
    THEN [toks |-> Append(toks, Tok(EOFKind, Len(q), <<>>)), err |-> NoErr]
    ELSE IF isOp(q[pos]) \/ q[pos] = "-" \/ q[pos] = "*"
    THEN Only({TokenizeFrom(q, p2, t2) :
               p2 \in {pos + 1}, t2 \in {Append(toks, Tok(q[pos], pos - 1, <<q[pos]>>))}})
    ELSE IF IsSpaceCh(q[pos])
    THEN Only({TokenizeFrom(q, p2, toks) : p2 \in {pos + 1}})
    ELSE Only({IF w.err # NoErr
               THEN [toks |-> <<>>, err |-> w.err]
               ELSE Only({TokenizeFrom(q, w.next, t2) :
                          t2 \in {Append(toks, Tok(IF w.quoted THEN "q" ELSE "w",
                                                   pos - 1, w.word))}})
               : w \in {tokWord(q, pos)}})

Tokenize(q) == TokenizeFrom(q, 1, <<>>)

----------------------------------------------------------------------------
(* kvql: the Query tree (part_014) and Parse (parse.go, second version)    *)

OpAnd == 1
OpOr == 2
OpNot == 3

NilQuery == [t |-> "nil"]
QueryMatch(off, key, match) == [t |-> "match", Off |-> off, Key |-> key, match |-> match]
QueryOp(op, exprs) == [t |-> "op", Op |-> op, Exprs |-> exprs]

\* toks[i] with the 0-based index of the source
Tk(toks, i) == toks[i + 1]

\* the rewrite loop at the head of parse: AND / OR words become operators,
\* quoted words become words
Rewrite(toks) ==
    [k \in 1 .. Len(toks) |->
        IF toks[k].Kind = "w" /\ toks[k].Tok = <<"A", "N", "D">>
        THEN [toks[k] EXCEPT !.Kind = "A"]
        ELSE IF toks[k].Kind = "w" /\ toks[k].Tok = <<"O", "R">>
        THEN [toks[k] EXCEPT !.Kind = "O"]
        ELSE IF toks[k].Kind = "q"
        THEN [toks[k] EXCEPT !.Kind = "w"]
        ELSE toks[k]]

\* the characters c for which regexp/syntax reads \c as an escape: every
\* punctuation character, and the letters of the control characters, the
\* classes and the anchors (\Q is read before this is asked)
EscapeOK(c) ==
    \/ c \in {" ", "\t", "\n", "\"", "(", ")", ":", "@", ",", "-", "*", "\\", ".", "/"}
    \/ c \in {"a", "f", "t", "n", "r", "v", "d", "D", "s", "S", "w", "W", "A", "z", "b", "B"}

\* the position of the first \E at or after k, or Len(w) + 1: where the
\* literal text that a \Q opens ends
RECURSIVE LiteralEnd(_, _)
LiteralEnd(w, k) ==
    IF k > Len(w) THEN k
    ELSE IF w[k] = "\\" /\ k < Len(w) /\ w[k + 1] = "E" THEN k
    ELSE LiteralEnd(w, k + 1)

\* regexp/syntax parses w[k ..] with depth groups open; atom says that
\* something a * can repeat comes just before. On the model's alphabet the
\* metacharacters are ( ) * and \: the parentheses must balance, a * must
\* follow something it can repeat, a \ must begin an escape, and the text
\* after \Q is literal up to \E or the end of the pattern.
RECURSIVE RegexpScan(_, _, _, _)
RegexpScan(w, k, depth, atom) ==
    IF k > Len(w) THEN depth = 0
    ELSE IF w[k] = "(" THEN RegexpScan(w, k + 1, depth + 1, FALSE)
    ELSE IF w[k] = ")" THEN depth > 0 /\ RegexpScan(w, k + 1, depth - 1, TRUE)
    ELSE IF w[k] = "*" THEN atom /\ RegexpScan(w, k + 1, depth, FALSE)
    ELSE IF w[k] = "\\"
    THEN IF k = Len(w) THEN FALSE
         ELSE IF w[k + 1] = "Q"
         THEN Only({RegexpScan(w, IF e > Len(w) THEN e ELSE e + 2, depth, atom \/ e > k + 2)
                    : e \in {LiteralEnd(w, k + 2)}})
         ELSE EscapeOK(w[k + 1]) /\ RegexpScan(w, k + 2, depth, TRUE)
    ELSE RegexpScan(w, k + 1, depth, TRUE)

\* regexp.Compile(w) succeeds
RegexpOK(w) == RegexpScan(w, 1, 0, FALSE)

\* the text "^(?:" + w + ")$" that matchWord hands to regexp.MustCompile
\* parses: w is read inside one open group, which the ")" appended to it
\* has to close
WrappedOK(w) == RegexpScan(w \o <<")">>, 1, 1, FALSE)

\* mutant of PError: the last error recorded replaces the earlier ones
M_PError(toks, ps, i, msg) ==
    [err  |-> SyntaxError(Tk(toks, i).Off, msg, Tk(toks, i).Tok),
     errs |-> Append(ps.errs, Tk(toks, i).Off)]

\* parser.error as a state transformer of ps = [err, errs]; errs is the
\* history of the offsets of all errors recorded
PError(toks, ps, i, msg) ==
    LET off == Tk(toks, i).Off
    IN  [err  |-> IF ps.err = NoErr \/ off < ps.err.Off
                  THEN SyntaxError(off, msg, Tk(toks, i).Tok)
                  ELSE ps.err,
         errs |-> Append(ps.errs, off)]

\* "Move to the end token": the index parser.error returns
EndTok(toks) == Len(toks) - 1

Ret(q, i, ps) == [q |-> q, i |-> i, ps |-> ps]
Fail(toks, ps, i, msg) == Ret(NilQuery, EndTok(toks), PError(toks, ps, i, msg))

\* a panic, in the place of the error of a call that does not return. It
\* unwinds the parser: its offset is below every offset of the query, so no
\* error recorded later takes its place.
Panic(msg) == SyntaxError(-2, msg, <<>>)
Panicked(err) == err # NoErr /\ err.Off = -2

\* parser.matchWord
matchWord(toks, i, keyOff, key, ps) ==
    IF ~RegexpOK(Tk(toks, i).Tok)
    THEN Fail(toks, ps, i, "regexp error")
    ELSE IF ~WrappedOK(Tk(toks, i).Tok)
    THEN Ret(NilQuery, EndTok(toks),
             [err |-> Panic("regexp: Compile: missing closing )"), errs |-> Append(ps.errs, -2)])
    ELSE Ret(QueryMatch(keyOff, key, Tk(toks, i).Tok), i + 1, ps)

\* the multi-match loop of parser.match: [terms, i, ps]
RECURSIVE MultiLoop(_, _, _, _, _, _)
MultiLoop(toks, terms, i, off, key, ps) ==
    IF Tk(toks, i).Kind = "w"
    THEN Only({Only({MultiLoop(toks, t2, r.i, off, key, r.ps) : t2 \in {Append(terms, r.q)}})
               : r \in {matchWord(toks, i, off, key, ps)}})
    ELSE [terms |-> terms, i |-> i, ps |-> ps]

RECURSIVE orExpr(_, _, _), andExpr(_, _, _), phrase(_, _, _), match(_, _, _)
RECURSIVE OrLoop(_, _, _, _), AndLoop(_, _, _, _), PhraseLoop(_, _, _, _)
RECURSIVE M_AndLoop(_, _, _, _)

\* parser.expr
expr(toks, i, ps) == orExpr(toks, i, ps)

\* the for loop of parser.orExpr
OrLoop(toks, terms, i, ps) ==
    IF Tk(toks, i).Kind = "O"
    THEN Only({Only({OrLoop(toks, t2, r.i, r.ps) : t2 \in {Append(terms, r.q)}})
               : r \in {andExpr(toks, i + 1, ps)}})
    ELSE Ret(QueryOp(OpOr, terms), i, ps)

\* parser.orExpr
orExpr(toks, i, ps) ==
    Only({IF Tk(toks, r.i).Kind # "O" THEN r
          ELSE OrLoop(toks, <<r.q>>, r.i, r.ps)
          : r \in {andExpr(toks, i, ps)}})

\* the for loop of parser.andExpr
AndLoop(toks, terms, i, ps) ==
    IF Tk(toks, i).Kind = "A"
    THEN Only({Only({AndLoop(toks, t2, r.i, r.ps) : t2 \in {Append(terms, r.q)}})
               : r \in {phrase(toks, i + 1, ps)}})
    ELSE Ret(QueryOp(OpAnd, terms), i, ps)

\* mutant of andExpr: the operands of AND are single matches, so that AND
\* binds tighter than juxtaposition
M_AndLoop(toks, terms, i, ps) ==
    IF Tk(toks, i).Kind = "A"
    THEN Only({Only({M_AndLoop(toks, t2, r.i, r.ps) : t2 \in {Append(terms, r.q)}})
               : r \in {match(toks, i + 1, ps)}})
    ELSE Ret(QueryOp(OpAnd, terms), i, ps)

M_andExpr(toks, i, ps) ==
    Only({IF Tk(toks, r.i).Kind # "A" THEN r
          ELSE M_AndLoop(toks, <<r.q>>, r.i, r.ps)
          : r \in {match(toks, i, ps)}})

\* parser.andExpr
andExpr(toks, i, ps) ==
    Only({IF Tk(toks, r.i).Kind # "A" THEN r
          ELSE AndLoop(toks, <<r.q>>, r.i, r.ps)
          : r \in {phrase(toks, i, ps)}})

\* the loop of parser.phrase and what follows it
PhraseLoop(toks, terms, i, ps) ==
    LET kind == Tk(toks, i).Kind
    IN  IF kind \in {"(", "-", "w", "*"}
        THEN Only({Only({PhraseLoop(toks, t2, r.i, r.ps) : t2 \in {Append(terms, r.q)}})
                   : r \in {match(toks, i, ps)}})
        ELSE IF kind \in {")", "A", "O", EOFKind}
        THEN IF Len(terms) = 0 THEN Fail(toks, ps, i, "nothing to match")
             ELSE IF Len(terms) = 1 THEN Ret(terms[1], i, ps)
             ELSE Ret(QueryOp(OpAnd, terms), i, ps)
        ELSE Fail(toks, ps, i, "unexpected")

\* parser.phrase
phrase(toks, i, ps) == PhraseLoop(toks, <<>>, i, ps)

\* parser.match
match(toks, i, ps) ==
    LET kind == Tk(toks, i).Kind
    IN  IF kind = "("
        THEN Only({IF Tk(toks, r.i).Kind # ")"
                   THEN Fail(toks, r.ps, r.i, "missing \")\"")
                   ELSE Ret(r.q, r.i + 1, r.ps)
                   : r \in {expr(toks, i + 1, ps)}})
        ELSE IF kind = "-"
        THEN Only({Ret(QueryOp(OpNot, <<r.q>>), r.i, r.ps) : r \in {match(toks, i + 1, ps)}})
        ELSE IF kind = "*"
        THEN Ret(QueryOp(OpAnd, <<>>), i + 1, ps)
        ELSE IF kind = "w"
        THEN LET off == Tk(toks, i).Off
                 key == Tk(toks, i).Tok
             IN  IF Tk(toks, i + 1).Kind # ":"
                 THEN Fail(toks, ps, i, "expected key:value")
                 ELSE IF Tk(toks, i + 2).Kind = "w"
                 THEN matchWord(toks, i + 2, off, key, ps)
                 ELSE IF Tk(toks, i + 2).Kind = "("
                 THEN Only({IF Tk(toks, m.i).Kind # ")"
                            THEN Fail(toks, m.ps, m.i, "expected value")
                            ELSE IF Len(m.terms) = 0
                            THEN Fail(toks, m.ps, m.i, "nothing to match")
                            ELSE Ret(QueryOp(OpOr, m.terms), m.i + 1, m.ps)
                            : m \in {MultiLoop(toks, <<>>, i + 3, off, key, ps)}})
                 ELSE Fail(toks, ps, i, "expected key:value")
        ELSE Fail(toks, ps, i, "expected key:value or subexpression")

\* parse: [q, err, errs]
parse(toks0) ==
    Only({Only({Only({IF ps.err # NoErr
                      THEN [q |-> NilQuery, err |-> ps.err, errs |-> ps.errs]
                      ELSE [q |-> r.q, err |-> NoErr, errs |-> ps.errs]
                      : ps \in {IF Tk(toks, r.i).Kind # EOFKind
                                THEN PError(toks, r.ps, r.i, "unexpected")
                                ELSE r.ps}})
                : r \in {expr(toks, 0, [err |-> NoErr, errs |-> <<>>])}})
          : toks \in {Rewrite(toks0)}})

\* kvql.Parse
Parse(q) ==
    Only({IF t.err # NoErr
          THEN [q |-> NilQuery, err |-> t.err, errs |-> <<>>]
          ELSE parse(t.toks)
          : t \in {Tokenize(q)}})

----------------------------------------------------------------------------
(* Query.String (part_014)                                                 *)

\* the concatenation of the strings ss
RECURSIVE Flatten(_)
Flatten(ss) == IF ss = <<>> THEN <<>> ELSE Head(ss) \o Flatten(Tail(ss))

\* strconv.Quote, on the characters of the model's alphabet
QuoteCh(ch) ==
    IF ch = "\"" THEN <<"\\", "\"">>
    ELSE IF ch = "\\" THEN <<"\\", "\\">>
    ELSE IF ch = "\n" THEN <<"\\", "n">>
    ELSE IF ch = "\t" THEN <<"\\", "t">>
    ELSE <<ch>>

Quote(s) == <<"\"">> \o Flatten([k \in DOMAIN s |-> QuoteCh(s[k])]) \o <<"\"">>

\* the function quote of QueryMatch.String
quote(s) ==
    IF \E k \in DOMAIN s : IsSpaceCh(s[k]) \/ s[k] \in {"\"", " ", "(", ")", ":"}
    THEN Quote(s)
    ELSE s

\* QueryMatch.String and QueryOp.String
RECURSIVE String(_)
String(q) ==
    IF q.t = "match" THEN quote(q.Key) \o <<":">> \o quote(q.match)
    ELSE IF q.Op = OpNot THEN <<"-">> \o String(q.Exprs[1])
    ELSE LET op == IF q.Op = OpAnd THEN <<" ", "A", "N", "D", " ">> ELSE <<" ", "O", "R", " ">>
         IN  <<"(">>
             \o Flatten([i \in DOMAIN q.Exprs |->
                           (IF i > 1 THEN op ELSE <<>>) \o String(q.Exprs[i])])
             \o <<")">>

----------------------------------------------------------------------------
(* The query strings Parse is applied to                                   *)

\* free-form input: any string of a few pieces
Lexemes ==
    { <<"a", ":", "b">>, <<"a", ":", "(">>, <<"a", ":">>, <<"a">>, <<":">>,
      <<"(">>, <<")">>, <<"-">>, <<"*">>, <<" ">>, <<"\"">>, <<"\"", "(", "\"">>,
      <<"O", "R">> }

FreeForms ==
    UNION {{[terms |-> <<>>, conns |-> <<>>, pieces |-> p] : p \in [1 .. n -> Lexemes]}
               : n \in 0 .. MaxLexemes}

\* structured input: terms joined by a space (implicit AND), AND or OR.
\* The i-th term uses its own key and value letters, as in `a:b c:d OR e:f`.
TermKinds == {"kv", "-kv", "*"}
Conns == {"", "AND", "OR"}
Letters == <<"a", "b", "c", "d", "e", "f", "g", "h", "i", "j", "k", "l">>
KeyOf(i) == <<Letters[((2 * i - 2) % Len(Letters)) + 1]>>
ValOf(i) == <<Letters[((2 * i - 1) % Len(Letters)) + 1]>>

TermText(kind, i) ==
    IF kind = "kv" THEN KeyOf(i) \o <<":">> \o ValOf(i)
    ELSE IF kind = "-kv" THEN <<"-">> \o KeyOf(i) \o <<":">> \o ValOf(i)
    ELSE <<"*">>

ConnText(c) ==
    IF c = "AND" THEN <<" ", "A", "N", "D", " ">>
    ELSE IF c = "OR" THEN <<" ", "O", "R", " ">>
    ELSE <<" ">>

TermForms ==
    UNION {{[terms |-> t, conns |-> c, pieces |-> <<>>] : t \in [1 .. n -> TermKinds],
                                                          c \in [1 .. n - 1 -> Conns]}
               : n \in 1 .. MaxTerms}

\* the text before term i of a structured input, and the whole text
RECURSIVE TextUpTo(_, _)
TextUpTo(f, i) ==
    IF i = 1 THEN <<>>
    ELSE TextUpTo(f, i - 1) \o TermText(f.terms[i - 1], i - 1) \o ConnText(f.conns[i - 1])

TermFormText(f) ==
    LET n == Len(f.terms) IN TextUpTo(f, n) \o TermText(f.terms[n], n)

IsTermForm(f) == f.terms # <<>>

ParseStart ==
    /\ \/ \E f \in TermForms : qform = f /\ query = TermFormText(f)
       \/ \E f \in FreeForms : qform = f /\ query = Flatten(f.pieces)
    /\ pres = NotCalled

CSIdle == CSStart

\* a call of kvql.Parse
DoParse ==
    /\ ~pres.called
    /\ \E r \in {Parse(query)} : pres' = [called |-> TRUE, ret |-> r]
    /\ UNCHANGED <<qform, query>>

\* q.String() of the Query that Parse returned, and Parse of that string
Render ==
    /\ pres.called
    /\ pres.ret.err = NoErr
    /\ "str" \notin DOMAIN pres
    /\ \E str \in {String(pres.ret.q)} :
          pres' = [called |-> TRUE, ret |-> pres.ret, str |-> str, again |-> Parse(str)]
    /\ UNCHANGED <<qform, query>>

ParseInit == ParseStart /\ CSIdle /\ FilterIdle /\ SchemaIdle /\ ResultIdle /\ OrderIdle /\ WriterIdle /\ PFCIdle
ParseNext == DoParse /\ UNCHANGED <<csVars, filterVars, schemaVars, resultVars, orderVars, writerVars, pfcVars>>

SpecParse == ParseInit /\ [][ParseNext]_vars

----------------------------------------------------------------------------
(* Claims about kvql.Parse                                                 *)

\* the maximal runs lo..hi of the terms lo0..hi0 that no connective c splits
RECURSIVE Runs(_, _, _, _)
Runs(f, lo, hi, c) ==
    LET cuts == {j \in lo .. hi - 1 : f.conns[j] = c}
    IN  IF cuts = {} THEN << <<lo, hi>> >>
        ELSE LET j == CHOOSE x \in cuts : \A y \in cuts : x <= y
             IN  << <<lo, j>> >> \o Runs(f, j + 1, hi, c)

\* the tree of one term of a structured input, from its text position
TermTree(f, i) ==
    LET off == Len(TextUpTo(f, i))
    IN  IF f.terms[i] = "kv" THEN QueryMatch(off, KeyOf(i), ValOf(i))
        ELSE IF f.terms[i] = "-kv"
        THEN QueryOp(OpNot, <<QueryMatch(off + 1, KeyOf(i), ValOf(i))>>)
        ELSE QueryOp(OpAnd, <<>>)

\* a group of one member is that member; a larger one is an op node
Group(op, members) == IF Len(members) = 1 THEN members[1] ELSE QueryOp(op, members)

\* juxtaposed terms lo..hi
JuxtTree(f, r) == Group(OpAnd, [k \in 1 .. r[2] - r[1] + 1 |-> TermTree(f, r[1] + k - 1)])

\* terms lo..hi holding no OR: the runs between ANDs
AndTree(f, r) ==
    LET rs == Runs(f, r[1], r[2], "AND")
    IN  Group(OpAnd, [k \in 1 .. Len(rs) |-> JuxtTree(f, rs[k])])

\* the grouping the grammar gives a structured input: OR of AND of juxtaposition
RefTree(f) ==
    LET rs == Runs(f, 1, Len(f.terms), "OR")
    IN  Group(OpOr, [k \in 1 .. Len(rs) |-> AndTree(f, rs[k])])

\* C9: a query of terms joined by spaces, AND and OR parses without error to
\* the tree in which juxtaposition binds tighter than AND and AND tighter than
\* OR, and in which a unary - negates only the match that follows it.
C9_Precedence ==
    (pres.called /\ IsTermForm(qform)) =>
        /\ pres.ret.err = NoErr
        /\ pres.ret.q = RefTree(qform)

\* C9 witness: `a:b AND c:d OR e:f AND g:h` parsed to
\* ((a:b AND c:d) OR (e:f AND g:h)).
C9_Witness ==
    /\ pres.called
    /\ query = <<"a", ":", "b", " ", "A", "N", "D", " ", "c", ":", "d", " ", "O", "R", " ",
                 "e", ":", "f", " ", "A", "N", "D", " ", "g", ":", "h">>
    /\ pres.ret.q =
         QueryOp(OpOr,
            << QueryOp(OpAnd, << QueryMatch(0, <<"a">>, <<"b">>),
                                 QueryMatch(8, <<"c">>, <<"d">>) >>),
               QueryOp(OpAnd, << QueryMatch(15, <<"e">>, <<"f">>),
                                 QueryMatch(23, <<"g">>, <<"h">>) >>) >>)

SeqMin(ns) == CHOOSE n \in {ns[k] : k \in DOMAIN ns} : \A k \in DOMAIN ns : n <= ns[k]

\* C10: when Parse fails, the offset of the error it returns is the smallest
\* of the offsets of the errors the parser recorded, and lies in 0 .. len(query).
C10_EarliestError ==
    (pres.called /\ pres.ret.err # NoErr) =>
        /\ pres.ret.errs # <<>> => pres.ret.err.Off = SeqMin(pres.ret.errs)
        /\ pres.ret.err.Off \in 0 .. Len(query)

\* C10 witness: a failed parse that recorded a later error at a larger offset
\* than its first.
C10_Witness ==
    /\ pres.called
    /\ pres.ret.err # NoErr
    /\ \E k \in DOMAIN pres.ret.errs : pres.ret.errs[k] > pres.ret.errs[1]

----------------------------------------------------------------------------
(* benchfmt.Result and benchfmt.NewExtractor (result.go, extract.go)       *)

LowerCh == {"a", "b", "c", "d", "e", "f", "g", "h", "i", "j", "k", "l", "m",
            "n", "o", "p", "q", "r", "s", "t", "u", "v", "w", "x", "y", "z"}
UpperCh == {"A", "B", "C", "D", "E", "F", "G", "H", "I", "J", "K", "L", "M",
            "N", "O", "P", "Q", "R", "S", "T", "U", "V", "W", "X", "Y", "Z"}

isFileKey(key) ==
    /\ Len(key) # 0
    /\ key[1] \in LowerCh
    /\ \A i \in 1 .. Len(key) : ~IsSpaceCh(key[i]) /\ key[i] \notin UpperCh

\* Result.GetFileConfig: configPos maps a key to its last position
GetFileConfig(r, key) ==
    LET at == {i \in 1 .. Len(r.FileConfig) : r.FileConfig[i].Key = key}
    IN  IF at = {} THEN <<>>
        ELSE r.FileConfig[CHOOSE i \in at : \A j \in at : j <= i].Value

\* NewExtractor: the extractor is the record of what the closure captured
NewExtractor(key) ==
    IF Len(key) = 0
    THEN [ext |-> [kind |-> "nil"], err |-> "key must not be empty"]
    ELSE IF key[1] = "."
    THEN IF key = <<".", "n", "a", "m", "e">>
         THEN [ext |-> [kind |-> "name"], err |-> "nil"]
         ELSE IF key = <<".", "f", "u", "l", "l">>
         THEN [ext |-> [kind |-> "full"], err |-> "nil"]
         ELSE [ext |-> [kind |-> "nil"], err |-> "unknown special key"]
    ELSE IF key[1] = "/"
    THEN [ext |-> [kind |-> "namepart", key |-> key], err |-> "nil"]
    ELSE IF isFileKey(key)
    THEN [ext |-> [kind |-> "file", key |-> key], err |-> "nil"]
    ELSE [ext |-> [kind |-> "nil"], err |-> "expected .name, .full, /key, or file key"]

\* the call ext(res) of an extractor of a file key
extractFileKey(r, ext) == GetFileConfig(r, ext.key)

----------------------------------------------------------------------------
(* Filter and Match (filter.go). A uint64 is the set of its one bits.      *)

WordBits == 64
AllOnes == 0 .. WordBits - 1

UnitKey == <<".", "u", "n", "i", "t">>

\* QueryMatch.Match
QMatch(node, value) == value = node.match

NilFilter == [t |-> "nil"]

\* mutant of walkMatch: the error of NewExtractor is dropped
M_walkMatch(st, q) ==
    IF q.Key \in DOMAIN st.f.extractors
    THEN st
    ELSE IF q.Key = UnitKey
    THEN [st EXCEPT !.f.usesUnits = TRUE]
    ELSE [st EXCEPT !.f.extractors = (q.Key :> NewExtractor(q.Key).ext) @@ @]

\* the case *kvql.QueryMatch of the walk closure of NewFilter
walkMatch(st, q) ==
    IF q.Key \in DOMAIN st.f.extractors
    THEN st
    ELSE IF q.Key = UnitKey
    THEN [st EXCEPT !.f.usesUnits = TRUE]
    ELSE Only({IF e.err # "nil"
               THEN [st EXCEPT !.err = SyntaxError(q.Off, e.err, <<>>)]
               ELSE [st EXCEPT !.f.extractors = (q.Key :> e.ext) @@ @]
               : e \in {NewExtractor(q.Key)}})

\* the walk closure of NewFilter as a transformer of st = [f, err]
RECURSIVE walk(_, _), walkLoop(_, _, _)
walk(st, q) ==
    IF q.t = "op"
    THEN walkLoop(st, q.Exprs, 1)
    ELSE walkMatch(st, q)

walkLoop(st, exprs, k) ==
    IF k > Len(exprs) THEN st
    ELSE Only({IF st2.err # NoErr THEN st2 ELSE walkLoop(st2, exprs, k + 1)
               : st2 \in {walk(st, exprs[k])}})

\* NewFilter: [f, err]
NewFilterOf(q) ==
    Only({IF p.err # NoErr
          THEN [f |-> NilFilter, err |-> p.err]
          ELSE Only({IF st.err # NoErr
                     THEN [f |-> NilFilter, err |-> st.err]
                     ELSE st
                     : st \in {walk([f   |-> [t |-> "filter", query |-> p.q,
                                             extractors |-> <<>>, usesUnits |-> FALSE],
                                    err |-> NoErr], p.q)}})
          : p \in {Parse(q)}})

ZeroBuilder == [head |-> {}, rest |-> <<>>]

newMatchBuilder(n) ==
    IF n <= WordBits
    THEN ZeroBuilder
    ELSE [head |-> {}, rest |-> [k \in 1 .. ((n + 63) \div WordBits - 1) |-> {}]]

\* mutant of set: the bit of a value beyond the head lands in the head
M_set(m, i) == [m EXCEPT !.head = @ \cup {i % WordBits}]

\* matchBuilder.set; rest[i/64-1] of the source is rest[i \div 64] here
set(m, i) ==
    IF i < WordBits
    THEN [m EXCEPT !.head = @ \cup {i}]
    ELSE [m EXCEPT !.rest[i \div WordBits] = @ \cup {i % WordBits}]

\* mutant of setAll: only the head word is set
M_setAll(m) == [head |-> AllOnes, rest |-> m.rest]

\* matchBuilder.setAll
setAll(m) == [head |-> AllOnes, rest |-> [k \in DOMAIN m.rest |-> AllOnes]]

\* mutant of the OpNot case: only the head word is inverted
M_notBits(m) == [head |-> AllOnes \ m.head, rest |-> m.rest]

\* the OpNot, OpAnd and OpOr cases of Filter.match on whole builders
notBits(m) == [head |-> AllOnes \ m.head, rest |-> [k \in DOMAIN m.rest |-> AllOnes \ m.rest[k]]]
andBits(m, m2) ==
    [head |-> m.head \cap m2.head, rest |-> [k \in DOMAIN m.rest |-> m.rest[k] \cap m2.rest[k]]]
orBits(m, m2) ==
    [head |-> m.head \cup m2.head, rest |-> [k \in DOMAIN m.rest |-> m.rest[k] \cup m2.rest[k]]]

\* the iterations lo <= i < hi (0-based) of the loop over res.Values of a
\* .unit leaf, in order; the range is halved to keep the evaluation shallow
RECURSIVE unitLoop(_, _, _, _, _)
unitLoop(m, r, node, lo, hi) ==
    IF lo >= hi THEN m
    ELSE IF hi = lo + 1
    THEN IF QMatch(node, r.Values[lo + 1].Unit) THEN set(m, lo) ELSE m
    ELSE Only({Only({unitLoop(m2, r, node, mid, hi) : m2 \in {unitLoop(m, r, node, lo, mid)}})
               : mid \in {(lo + hi) \div 2}})

\* Filter.match
RECURSIVE Filter_match(_, _, _), Filter_matchRest(_, _, _, _, _)
Filter_match(f, r, node) ==
    LET m0 == IF f.usesUnits THEN newMatchBuilder(Len(r.Values)) ELSE ZeroBuilder
    IN  IF node.t = "op"
        THEN IF Len(node.Exprs) = 0 /\ node.Op = OpAnd THEN setAll(m0)
             ELSE IF Len(node.Exprs) = 0 /\ node.Op = OpOr THEN m0
             ELSE Only({IF node.Op = OpNot THEN notBits(m)
                        ELSE Filter_matchRest(f, r, node, m, 2)
                        : m \in {Filter_match(f, r, node.Exprs[1])}})
        ELSE IF f.usesUnits /\ node.Key = UnitKey
        THEN unitLoop(m0, r, node, 0, Len(r.Values))
        ELSE IF QMatch(node, extractFileKey(r, f.extractors[node.Key]))
        THEN setAll(m0)
        ELSE m0

\* the loops over node.Exprs[1:] of the OpAnd and OpOr cases
Filter_matchRest(f, r, node, m, k) ==
    IF k > Len(node.Exprs) THEN m
    ELSE Only({Filter_matchRest(f, r, node, m3, k + 1)
               : m3 \in {Only({IF node.Op = OpAnd THEN andBits(m, m2) ELSE orBits(m, m2)
                               : m2 \in {Filter_match(f, r, node.Exprs[k])}})}})

\* Match.Test
Test(m, i) ==
    IF i < 0 \/ i >= m.n THEN FALSE
    ELSE IF m.allEqual THEN 0 \in m.head
    ELSE IF i < WordBits THEN i \in m.head
    ELSE (i % WordBits) \in m.rest[i \div WordBits]

\* matchBuilder.finish
finish(m, broadcast, n) ==
    LET out == [n |-> n, allEqual |-> FALSE, head |-> m.head, rest |-> m.rest]
        b0 == 0 \in m.head
    IN  IF broadcast
        THEN [out EXCEPT !.allEqual = TRUE]
        ELSE IF \E i \in 1 .. n - 1 : Test(out, i) # b0
        THEN out
        ELSE [n |-> n, allEqual |-> TRUE, head |-> m.head \cap {0}, rest |-> <<>>]

\* Filter.Match
MatchOf(f, r) ==
    Only({finish(m, ~f.usesUnits, Len(r.Values)) : m \in {Filter_match(f, r, f.query)}})

Match_All(m) == m.allEqual /\ 0 \in m.head
Match_Any(m) == ~m.allEqual \/ 0 \in m.head

\* the iterations lo <= i < hi (0-based) of the compaction loop of
\* Match.Apply, in order, on st = [vals, j]: the array and the values kept
RECURSIVE ApplyLoop(_, _, _, _)
ApplyLoop(m, st, lo, hi) ==
    IF lo >= hi THEN st
    ELSE IF hi = lo + 1
    THEN IF Test(m, lo)
         THEN [vals |-> [st.vals EXCEPT ![st.j + 1] = st.vals[lo + 1]], j |-> st.j + 1]
         ELSE st
    ELSE Only({Only({ApplyLoop(m, st2, mid, hi) : st2 \in {ApplyLoop(m, st, lo, mid)}})
               : mid \in {(lo + hi) \div 2}})

\* Match.Apply: [Values, ret]
ApplyOf(m, vals) ==
    IF Match_All(m) THEN [Values |-> vals, ret |-> TRUE]
    ELSE IF ~Match_Any(m) THEN [Values |-> <<>>, ret |-> FALSE]
    ELSE Only({[Values |-> SubSeq(st.vals, 1, st.j), ret |-> st.j > 0]
               : st \in {ApplyLoop(m, [vals |-> vals, j |-> 0], 0, Len(vals))}})

----------------------------------------------------------------------------
(* The Results and queries the Filter is run on.                           *)

NsOp == <<"n", "s", "/", "o", "p">>
BOp == <<"B", "/", "o", "p">>
AllocsOp == <<"a", "l", "l", "o", "c", "s", "/", "o", "p">>
GoosKey == <<"g", "o", "o", "s">>
Linux == <<"l", "i", "n", "u", "x">>

Paren(s) == <<"(">> \o s \o <<")">>

QUnitB == UnitKey \o <<":">> \o BOp                              \* .unit:B/op
QGoos == GoosKey \o <<":">> \o Linux                             \* goos:linux
QStar == <<"*">>                                                 \* *
QUnits == UnitKey \o <<":">> \o Paren(NsOp \o <<" ">> \o BOp)    \* .unit:(ns/op B/op)
QPhrase == <<"-">> \o UnitKey \o <<":">> \o NsOp \o <<" ">> \o QGoos \o <<" ">> \o QStar
                                                                 \* -.unit:ns/op goos:linux *
QBadKey == <<".", "c", "p", "u", ":", "x">>                      \* .cpu:x
QBadSyntax == GoosKey \o <<":">>                                 \* goos:

FQ1 == {QUnitB, QGoos, QStar, QUnits, QPhrase}
FQ2 == {QUnitB, QGoos, QPhrase}
QNotStar == <<"-", "*">>                                         \* -*
QEmptyKey == <<"\"", "\"", ":", "x">>                           \* "":x
QUpperKey == <<"G", "o", "o", "s", ":", "x">>                    \* Goos:x
FErr == {QBadKey, QBadSyntax, QEmptyKey, QUpperKey}

NotText(q) == <<"-">> \o Paren(q)
AndText(q1, q2) == Paren(q1) \o <<" ", "A", "N", "D", " ">> \o Paren(q2)
OrText(q1, q2) == Paren(q1) \o <<" ", "O", "R", " ">> \o Paren(q2)

FForms ==
    {[op |-> "NOT", qs |-> <<q, NotText(q)>>] : q \in FQ1 \cup FErr \cup {QNotStar}}
    \cup {[op |-> "AND", qs |-> <<q1, q2, AndText(q1, q2)>>] : q1 \in FQ1, q2 \in FQ2}
    \cup {[op |-> "OR", qs |-> <<q1, q2, OrText(q1, q2)>>] : q1 \in FQ1, q2 \in FQ2}

\* the numbers of values: none, few, one head word, and up to MaxRest more words
FSizes == {0, 1, 2, WordBits, WordBits + 1, MaxRest * WordBits + 1}
\* the values whose unit varies: those around the word boundaries
Hot(n) == {i \in {0, 1, WordBits - 1, WordBits, MaxRest * WordBits} : i < n}

ValuesOf(n, S) ==
    [i \in 1 .. n |-> [Value |-> i, Unit |-> IF (i - 1) \in S THEN BOp ELSE NsOp]]

ExampleValues ==
    <<[Value |-> 1, Unit |-> NsOp], [Value |-> 2, Unit |-> BOp], [Value |-> 3, Unit |-> AllocsOp]>>

FResults ==
    {[FileConfig |-> fc, FullName |-> <<"X">>, Values |-> v] :
        fc \in {<<>>, <<[Key |-> GoosKey, Value |-> Linux]>>},
        v \in UNION {{ValuesOf(n, S) : S \in SUBSET Hot(n)} : n \in FSizes} \cup {ExampleValues}}

FilterStart ==
    /\ fform \in FForms
    /\ res \in FResults
    /\ filters = <<>>
    /\ mtab = <<>>
    /\ fapp = <<>>

\* the QueryMatch nodes of a query
RECURSIVE Leaves(_)
Leaves(q) ==
    IF q.t = "op" THEN UNION {Leaves(q.Exprs[k]) : k \in DOMAIN q.Exprs} ELSE {q}

\* query k has a Filter, and its Match of the Result as it is now is known
Fresh(k) == k \in DOMAIN mtab /\ mtab[k].on = res.Values
Usable(k) == k \in DOMAIN filters /\ filters[k].err = NoErr

\* NewFilter(fform.qs[k]); the Filters are built in the order of the queries
NewFilter(k) ==
    /\ k = Len(filters) + 1
    /\ k <= Len(fform.qs)
    /\ \E r \in {NewFilterOf(fform.qs[k])} : filters' = Append(filters, r)
    /\ UNCHANGED <<fform, res, mtab, fapp>>

\* m := filters[k].Match(res), with the builder of every leaf on the way
\* and the builders f.match gives for an AND and an OR without children
Match(k) ==
    /\ Len(filters) = Len(fform.qs)
    /\ Usable(k)
    /\ ~Fresh(k)
    /\ \A j \in 1 .. k - 1 : Usable(j) => Fresh(j)
    /\ \E m \in {MatchOf(filters[k].f, res)} :
          mtab' = (k :> [on |-> res.Values, m |-> m,
                         leaves |-> {[node |-> l, m |-> Filter_match(filters[k].f, res, l)]
                                     : l \in Leaves(filters[k].f.query)},
                         none |-> [op \in {OpAnd, OpOr} |->
                                     Filter_match(filters[k].f, res, QueryOp(op, <<>>))]]) @@ mtab
    /\ UNCHANGED <<fform, res, filters, fapp>>

\* m.Apply(res) of a Match m taken of res as it is now
Apply(k) ==
    /\ Len(fapp) < MaxApply
    /\ Fresh(k)
    /\ \A j \in DOMAIN filters : Usable(j) => Fresh(j)
    /\ \E r \in {ApplyOf(mtab[k].m, res.Values)} :
          /\ res' = [res EXCEPT !.Values = r.Values]
          /\ fapp' = Append(fapp, [m |-> mtab[k].m, before |-> res.Values,
                                   after |-> r.Values, ret |-> r.ret])
    /\ UNCHANGED <<fform, filters, mtab>>

FilterInit == FilterStart /\ CSIdle /\ ParseIdle /\ SchemaIdle /\ ResultIdle /\ OrderIdle /\ WriterIdle /\ PFCIdle

FilterNext ==
    \/ \E k \in 1 .. Len(fform.qs) : NewFilter(k)
    \/ \E k \in 1 .. Len(fform.qs) : Match(k)
    \/ \E k \in 1 .. Len(fform.qs) : Apply(k)

SpecFilter == FilterInit /\ [][FilterNext /\ UNCHANGED <<csVars, parseVars, schemaVars, resultVars, orderVars, writerVars, pfcVars>>]_vars

----------------------------------------------------------------------------
(* Claims about Filter and Match                                           *)

\* the Matches of all the queries of the run are known for the Result as it is
AllFresh == \A k \in 1 .. Len(fform.qs) : Usable(k) /\ Fresh(k)
TestOf(k, i) == Test(mtab[k].m, i)

\* C6: for every Result with n values and every i < n, the Match of NOT q
\* tests at i as the negation of the Match of q, the Match of q1 AND q2 as
\* the conjunction, and the Match of q1 OR q2 as the disjunction of the
\* Matches of q1 and q2, whether or not the queries reference .unit and
\* also for n above 64.
C6_BooleanAlgebra ==
    AllFresh =>
        \A i \in 0 .. Len(res.Values) - 1 :
            /\ fform.op = "NOT" => (TestOf(2, i) <=> ~TestOf(1, i))
            /\ fform.op = "AND" => (TestOf(3, i) <=> (TestOf(1, i) /\ TestOf(2, i)))
            /\ fform.op = "OR"  => (TestOf(3, i) <=> (TestOf(1, i) \/ TestOf(2, i)))

\* C6 witness: q1 does not reference .unit, q2 does, their AND is matched on
\* more than 64 values and holds for some values above the head word only
C6_Witness ==
    /\ AllFresh
    /\ fform.op = "AND"
    /\ ~filters[1].f.usesUnits /\ filters[3].f.usesUnits
    /\ Len(res.Values) > WordBits
    /\ TestOf(3, WordBits) /\ ~TestOf(3, 0) /\ ~TestOf(3, WordBits - 1)

\* bit i of a matchBuilder
Bit(m, i) ==
    IF i < WordBits THEN i \in m.head ELSE (i % WordBits) \in m.rest[i \div WordBits]

\* C7: in a Filter whose query references .unit, the builder of a .unit
\* leaf has bit i set exactly when the unit of res.Values[i] matches the
\* leaf, and the builder of a leaf on another key has all n bits set when
\* the extracted value matches and none of them set otherwise.
C7_LeafBits ==
    \A k \in DOMAIN mtab :
        filters[k].f.usesUnits =>
            \A e \in mtab[k].leaves :
                LET on == mtab[k].on
                    n  == Len(on)
                IN  IF e.node.Key = UnitKey
                    THEN \A i \in 0 .. n - 1 :
                            Bit(e.m, i) <=> (on[i + 1].Unit = e.node.match)
                    ELSE IF GetFileConfig(res, e.node.Key) = e.node.match
                    THEN \A i \in 0 .. n - 1 : Bit(e.m, i)
                    ELSE \A i \in 0 .. n - 1 : ~Bit(e.m, i)

\* C7 witness: .unit:(ns/op B/op) matched on the values ns/op, B/op, allocs/op
\* gives the bits true, true, false
C7_Witness ==
    /\ fform.qs[1] = QUnits
    /\ 1 \in DOMAIN mtab
    /\ mtab[1].on = ExampleValues
    /\ <<TestOf(1, 0), TestOf(1, 1), TestOf(1, 2)>> = <<TRUE, TRUE, FALSE>>
    /\ \E e \in mtab[1].leaves : e.node.match = BOp /\ e.m.head = {1}

\* the values of vals at the 0-based positions lo <= i < hi that test true,
\* in the order of vals
RECURSIVE Kept(_, _, _, _)
Kept(m, vals, lo, hi) ==
    IF lo >= hi THEN <<>>
    ELSE IF hi = lo + 1
    THEN IF Test(m, lo) THEN <<vals[lo + 1]>> ELSE <<>>
    ELSE Kept(m, vals, lo, (lo + hi) \div 2) \o Kept(m, vals, (lo + hi) \div 2, hi)

\* what Apply leaves is the values that test true, in their order
ApplyKeeps(a) == a.after = Kept(a.m, a.before, 0, Len(a.before))

\* C8 (as claimed): Apply leaves in res.Values exactly the entries that test
\* true, in their original order, returns true if and only if at least one
\* value remained, changes nothing when All() and empties res.Values when
\* not Any().
C8_ApplyAsClaimed ==
    \A x \in DOMAIN fapp :
        LET a == fapp[x]
        IN  /\ ApplyKeeps(a)
            /\ a.ret <=> (Len(a.after) > 0)
            /\ Match_All(a.m) => a.after = a.before
            /\ ~Match_Any(a.m) => a.after = <<>>

\* the keys of the leaves of q other than .unit
LeafKeys(q) == {l.Key : l \in Leaves(q)} \ {UnitKey}

\* C21: a query with a leaf key that NewExtractor rejects makes NewFilter
\* return an error; a Filter that NewFilter returned has an extractor for
\* every leaf key other than .unit, so that Match finds the extractor of
\* every leaf it evaluates.
C21_ExtractorsComplete ==
    \A k \in DOMAIN filters :
        /\ \A p \in {Parse(fform.qs[k])} :
              (p.err = NoErr /\ \E key \in LeafKeys(p.q) : NewExtractor(key).err # "nil")
                  => (filters[k].err # NoErr /\ filters[k].f = NilFilter)
        /\ filters[k].err = NoErr =>
              \A key \in LeafKeys(filters[k].f.query) :
                  /\ key \in DOMAIN filters[k].f.extractors
                  /\ filters[k].f.extractors[key] = NewExtractor(key).ext
                  /\ NewExtractor(key).err = "nil"
        /\ k \in DOMAIN mtab =>
              /\ filters[k].err = NoErr
              /\ mtab[k].m.n = Len(mtab[k].on)
              /\ \A e \in mtab[k].leaves :
                    e.node.Key # UnitKey => e.node.Key \in DOMAIN filters[k].f.extractors

\* NewFilter rejected the query of the empty key and its negation
C21_Witness ==
    /\ fform.qs[1] = QEmptyKey
    /\ Len(filters) = 2
    /\ filters[1].err.Msg = "key must not be empty"
    /\ filters[2].err # NoErr

\* a Filter with a file key and .unit was matched against a Result
C21_Matched ==
    /\ fform.qs[1] = QPhrase
    /\ 1 \in DOMAIN mtab
    /\ GoosKey \in DOMAIN filters[1].f.extractors
    /\ filters[1].f.usesUnits

\* All, Any and Test of the Matches taken of Results whose number of
\* values satisfies sizes agree: All() is Test(i) for every i < n, Any() is
\* Test(i) for some i < n, Test(i) is false outside [0, n), and without
\* .unit in the query Test(i) is the same for all i < n
AllAnyTest(sizes) ==
    \A k \in DOMAIN mtab :
        LET m == mtab[k].m
            n == Len(mtab[k].on)
        IN  n \in sizes =>
                /\ m.n = n
                /\ Match_All(m) <=> \A i \in 0 .. n - 1 : Test(m, i)
                /\ Match_Any(m) <=> \E i \in 0 .. n - 1 : Test(m, i)
                /\ \A i \in {0 - 1, n, n + 1, n + WordBits} : ~Test(m, i)
                /\ ~filters[k].f.usesUnits =>
                      \A i, j \in 0 .. n - 1 : Test(m, i) <=> Test(m, j)

\* C23: for every Match m that Filter.Match returned on a record with n
\* values, m.All() holds exactly when Test(i) holds for every i < n, m.Any()
\* exactly when Test(i) holds for some i < n, Test(i) is false for every i
\* outside [0, n), and when the query does not reference .unit Test(i) has
\* the same value for all i < n.
C23_AllAnyAsClaimed == AllAnyTest(Nat)

\* the same for the records that have a value
C23_WhenValues == AllAnyTest(Nat \ {0})

\* the Match of `*` on a record without values: Any() holds and no Test(i) does
C23_AnyOfNone ==
    /\ fform.qs[1] = QStar
    /\ 1 \in DOMAIN mtab
    /\ mtab[1].on = <<>>
    /\ Match_Any(mtab[1].m)
    /\ ~Test(mtab[1].m, 0)

\* C24: an AND without children evaluates to all bits set and an OR
\* without children to no bit set, with and without .unit in the query; `*`
\* parses to the AND without children, so that the Filter of `*` matches
\* every value of every record and the Filter of `-*` none.
C24_EmptyAndOr ==
    \A k \in DOMAIN mtab :
        LET m == mtab[k].m
            n == Len(mtab[k].on)
            f == filters[k].f
        IN  /\ IF f.usesUnits
               THEN \A i \in 0 .. n - 1 :
                       Bit(mtab[k].none[OpAnd], i) /\ ~Bit(mtab[k].none[OpOr], i)
               ELSE mtab[k].none[OpAnd].head = AllOnes /\ mtab[k].none[OpOr].head = {}
            /\ fform.qs[k] = QStar =>
                  /\ f.query = QueryOp(OpAnd, <<>>)
                  /\ Match_All(m)
                  /\ \A i \in 0 .. n - 1 : Test(m, i)
            /\ fform.qs[k] = QNotStar =>
                  /\ f.query = QueryOp(OpNot, <<QueryOp(OpAnd, <<>>)>>)
                  /\ ~Match_Any(m)
                  /\ \A i \in 0 .. n - 1 : ~Test(m, i)

\* the childless AND and OR were evaluated in a Filter that references
\* .unit on a record of more than 64 values, where the phrase that ends in
\* `*` holds for some values only
C24_Witness ==
    /\ fform.qs[1] = QPhrase
    /\ 1 \in DOMAIN mtab
    /\ filters[1].f.usesUnits
    /\ Len(mtab[1].on) > WordBits
    /\ Bit(mtab[1].none[OpAnd], WordBits)
    /\ TestOf(1, WordBits) /\ ~TestOf(1, 0)

\* `-*` matched none of the values of a record that has values
C24_NotStar ==
    /\ fform.qs[1] = QNotStar
    /\ 1 \in DOMAIN mtab
    /\ Len(mtab[1].on) > 1
    /\ ~Match_Any(mtab[1].m)

----------------------------------------------------------------------------
(* ProjectionParser and Schema (schema.go), Config.Less (part_012)         *)

\* concatenation of a sequence of strings, and the values of a sequence
Concat(ss) == Flatten(ss)
Range(f) == {f[i] : i \in DOMAIN f}
HasPrefix(s, pre) == Len(s) >= Len(pre) /\ SubSeq(s, 1, Len(pre)) = pre

\* the byte of a character, for the characters compared by the model
Code(ch) ==
    CASE ch = "+" -> 43 [] ch = "-" -> 45 [] ch = "." -> 46 [] ch = "/" -> 47
      [] ch = "0" -> 48 [] ch = "1" -> 49 [] ch = "2" -> 50 [] ch = "3" -> 51
      [] ch = "9" -> 57
      [] ch = "B" -> 66 [] ch = "X" -> 88
      [] ch = "a" -> 97 [] ch = "b" -> 98 [] ch = "c" -> 99
      [] ch = "n" -> 110 [] ch = "o" -> 111 [] ch = "p" -> 112 [] ch = "s" -> 115
      [] ch = "x" -> 120

\* a < b on strings: byte-wise lexicographic order
RECURSIVE StrLess(_, _)
StrLess(a, b) ==
    IF b = <<>> THEN FALSE
    ELSE IF a = <<>> THEN TRUE
    ELSE IF a[1] # b[1] THEN Code(a[1]) < Code(b[1])
    ELSE StrLess(Tail(a), Tail(b))

Digits == {"0", "1", "2", "3", "4", "5", "6", "7", "8", "9"}
DigitVal(ch) == Code(ch) - 48

RECURSIVE Pow10(_)
Pow10(k) == IF k = 0 THEN 1 ELSE 10 * Pow10(k - 1)

\* the number written by a string of digits
RECURSIVE DecVal(_)
DecVal(ds) == IF ds = <<>> THEN 0 ELSE 10 * DecVal(SubSeq(ds, 1, Len(ds) - 1)) + DigitVal(ds[Len(ds)])

\* strconv.ParseFloat(a, 64) on strings of a sign, digits and points (the
\* decimal literals among the values of the model; every other string of
\* the model's values is not a number): the value is num / den
ParseFloat(a) ==
    LET neg == a # <<>> /\ a[1] = "-"
        u   == IF a # <<>> /\ a[1] \in {"-", "+"} THEN Tail(a) ELSE a
        pts == {i \in 1 .. Len(u) : u[i] = "."}
        ds  == SelectSeq(u, LAMBDA ch : ch # ".")
    IN  IF /\ ds # <<>>
           /\ \A i \in 1 .. Len(ds) : ds[i] \in Digits
           /\ Cardinality(pts) <= 1
        THEN [err |-> FALSE, num |-> IF neg THEN 0 - DecVal(ds) ELSE DecVal(ds),
              den |-> IF pts = {} THEN 1 ELSE Pow10(Len(u) - (CHOOSE i \in pts : TRUE))]
        ELSE [err |-> TRUE, num |-> 0, den |-> 1]

\* builtinOrders["alpha"] and builtinOrders["numeric"]
alphaLess(a, b) == StrLess(a, b)

\* mutant of numericLess: the string order is the fallback when either
\* value is not a number
M_numericLess(a, b) ==
    LET aa == ParseFloat(a)
        bb == ParseFloat(b)
    IN  IF ~aa.err /\ ~bb.err THEN aa.num * bb.den < bb.num * aa.den
        ELSE StrLess(a, b)

numericLess(a, b) ==
    LET aa == ParseFloat(a)
        bb == ParseFloat(b)
    IN  IF ~aa.err /\ ~bb.err THEN aa.num * bb.den < bb.num * aa.den
        ELSE IF aa.err /\ bb.err THEN StrLess(a, b)
        ELSE ~aa.err

OrderFirst == <<"f", "i", "r", "s", "t">>
OrderAlpha == <<"a", "l", "p", "h", "a">>
OrderNumeric == <<"n", "u", "m", "e", "r", "i", "c">>
ConfigKey == <<".", "c", "o", "n", "f", "i", "g">>
FullnameKey == <<".", "f", "u", "l", "l", "n", "a", "m", "e">>
NameKey == <<".", "n", "a", "m", "e">>

\* a schemaNode; node 1 of a Schema is its root, and sub holds node numbers
schemaNode(name, idx) ==
    [name |-> name, idx |-> idx, sub |-> <<>>, less |-> "nil", exact |-> <<>>,
     hasOrder |-> FALSE, order |-> <<>>]
Root == 1

newSchema ==
    [nodes |-> <<schemaNode(<<>>, -1)>>, nFields |-> 0, unitNode |-> nil,
     project |-> <<>>, row |-> <<>>, configs |-> <<>>, cnodes |-> <<>>]

\* mutant of addField: the index is the field's position in its group
M_addField(s, group, name) ==
    LET g == IF group = nil THEN Root ELSE group
    IN  [s EXCEPT !.nodes = Append([@ EXCEPT ![g].sub = Append(@, Len(s.nodes) + 1)],
                                   schemaNode(name, Len(s.nodes[g].sub))),
                  !.nFields = @ + 1,
                  !.row = Append(@, <<>>)]

\* Schema.addField; the new node is the last of s.nodes
addField(s, group, name) ==
    LET g == IF group = nil THEN Root ELSE group
    IN  [s EXCEPT !.nodes = Append([@ EXCEPT ![g].sub = Append(@, Len(s.nodes) + 1)],
                                   schemaNode(name, s.nFields)),
                  !.nFields = @ + 1,
                  !.row = Append(@, <<>>)]

\* Schema.addGroup
addGroup(s, group, name) ==
    LET g == IF group = nil THEN Root ELSE group
    IN  [s EXCEPT !.nodes = Append([@ EXCEPT ![g].sub = Append(@, Len(s.nodes) + 1)],
                                   schemaNode(name, -1))]

\* the order function makeProjection constructs: exact, first or built in
orderOf(order, exact) ==
    IF exact # <<>> THEN [err |-> "nil", less |-> "exact", exact |-> exact, hasOrder |-> FALSE]
    ELSE IF order = OrderFirst
    THEN [err |-> "nil", less |-> "nil", exact |-> <<>>, hasOrder |-> TRUE]
    ELSE IF order = OrderAlpha
    THEN [err |-> "nil", less |-> "alpha", exact |-> <<>>, hasOrder |-> FALSE]
    ELSE IF order = OrderNumeric
    THEN [err |-> "nil", less |-> "numeric", exact |-> <<>>, hasOrder |-> FALSE]
    ELSE [err |-> "unknown order", less |-> "nil", exact |-> <<>>, hasOrder |-> FALSE]

\* initField(node) on the last node of s
initField(s, init) ==
    [s EXCEPT !.nodes[Len(s.nodes)] =
        [@ EXCEPT !.less = init.less, !.exact = init.exact, !.hasOrder = init.hasOrder]]

\* ProjectionParser.makeProjection: [p, s, err]
makeProjection(p, s, key, order, exact) ==
    LET init == orderOf(order, exact)
    IN  IF init.err # "nil" THEN [p |-> p, s |-> s, err |-> init.err]
        ELSE IF key = ConfigKey
        THEN IF exact # <<>>
             THEN [p |-> p, s |-> s, err |-> "exact order not allowed for .config"]
             ELSE Only({[p |-> [p EXCEPT !.haveConfig = TRUE],
                         s |-> [s2 EXCEPT !.project =
                                  Append(@, [kind |-> "config", group |-> Len(s2.nodes),
                                             seen |-> <<>>, init |-> init])],
                         err |-> "nil"]
                        : s2 \in {addGroup(s, nil, ConfigKey)}})
        ELSE IF key = FullnameKey
        THEN Only({[p |-> [p EXCEPT !.haveFullname = TRUE],
                    s |-> [s2 EXCEPT !.project =
                             Append(@, [kind |-> "fullname", field |-> Len(s2.nodes),
                                        exact |-> exact])],
                    err |-> "nil"]
                   : s2 \in {initField(addField(s, nil, FullnameKey), init)}})
        ELSE Only({Only({IF e.err # "nil"
                         THEN [p |-> p2, s |-> s, err |-> e.err]
                         ELSE Only({[p |-> p2,
                                     s |-> [s2 EXCEPT !.project =
                                              Append(@, [kind |-> "key", ext |-> e.ext,
                                                         field |-> Len(s2.nodes),
                                                         exact |-> exact])],
                                     err |-> "nil"]
                                    : s2 \in {initField(addField(s, nil, key), init)}})
                         : e \in {NewExtractor(key)}})
                   : p2 \in {IF key = NameKey \/ HasPrefix(key, <<"/">>)
                             THEN [p EXCEPT !.fullnameKeys = Append(@, key)]
                             ELSE [p EXCEPT !.configKeys = @ \cup {key}]}})

IsWord(t) == t.Kind = "w" \/ t.Kind = "q"

\* the loop collecting the values of key:(v1 v2 ...) from token i (0-based)
RECURSIVE exactLoop(_, _, _)
exactLoop(toks, i, exact) ==
    IF IsWord(Tk(toks, i))
    THEN Only({exactLoop(toks, i + 1, e2) : e2 \in {Append(exact, Tk(toks, i).Tok)}})
    ELSE [i |-> i, exact |-> exact]

\* the loop of ProjectionParser.Parse from token i (0-based): [p, s, err]
RECURSIVE parseLoop(_, _, _, _)
parseLoop(p, s, toks, i) ==
    IF i >= Len(toks) THEN [p |-> p, s |-> s, err |-> NoErr]
    ELSE IF ~IsWord(Tk(toks, i))
    THEN [p |-> p, s |-> nil, err |-> SyntaxError(Tk(toks, i).Off, "expected key", <<>>)]
    ELSE
      LET key == Tk(toks, i)
          fail(p1, off, msg) == [p |-> p1, s |-> nil, err |-> SyntaxError(off, msg, <<>>)]
          \* the rest of the iteration, once order and exact are known and
          \* the tokens up to j are consumed
          rest(order, exact, j) ==
              Only({IF m.err # "nil" THEN fail(m.p, key.Off, m.err)
                    ELSE IF ~(Tk(toks, j).Kind = "," \/ Tk(toks, j).Kind = EOFKind)
                    THEN fail(m.p, Tk(toks, j).Off, "expected ,")
                    ELSE parseLoop(m.p, m.s, toks, j + 1)
                    : m \in {makeProjection(p, s, key.Tok, order, exact)}})
      IN  IF Tk(toks, i + 1).Kind = "@"
          THEN IF ~IsWord(Tk(toks, i + 2))
               THEN fail(p, Tk(toks, i + 2).Off, "expected sort order")
               ELSE rest(Tk(toks, i + 2).Tok, <<>>, i + 3)
          ELSE IF Tk(toks, i + 1).Kind = ":"
          THEN IF Tk(toks, i + 2).Kind # "("
               THEN fail(p, Tk(toks, i + 2).Off, "expected (")
               ELSE Only({IF Tk(toks, x.i).Kind # ")"
                          THEN fail(p, Tk(toks, x.i).Off, "expected )")
                          ELSE IF Len(x.exact) = 0
                          THEN fail(p, Tk(toks, i + 2).Off, "nothing to match")
                          ELSE rest(OrderFirst, x.exact, x.i)
                          : x \in {exactLoop(toks, i + 3, <<>>)}})
          ELSE rest(OrderFirst, <<>>, i + 1)

\* ProjectionParser.Parse: [p, s, err], s = nil with an error
ParseProjection(p, proj) ==
    Only({IF t.err # NoErr
          THEN [p |-> p, s |-> nil, err |-> t.err]
          ELSE parseLoop(p, newSchema, t.toks, 0)
          : t \in {Tokenize(proj)}})

\* the call ext(res) of an Extractor
Extract(ext, r) ==
    CASE ext.kind = "file" -> extractFileKey(r, ext)
      [] ext.kind = "full" -> r.FullName

\* NewExtractorFullName(exclude): without name keys to exclude it is extractFull
NewExtractorFullName(exclude) ==
    IF \A i \in DOMAIN exclude : ~HasPrefix(exclude[i], <<"/">>)
    THEN [kind |-> "full"]
    ELSE [kind |-> "fullExcluded", exclude |-> exclude]

\* the loop over r.FileConfig of the .config projection k of s, from entry i
RECURSIVE configLoop(_, _, _, _, _)
configLoop(p, s, k, r, i) ==
    IF i > Len(r.FileConfig) THEN s
    ELSE LET cfg  == r.FileConfig[i]
             proj == s.project[k]
         IN  IF cfg.Key \in DOMAIN proj.seen
             THEN Only({configLoop(p, s2, k, r, i + 1)
                        : s2 \in {[s EXCEPT !.row[s.nodes[proj.seen[cfg.Key]].idx + 1] = cfg.Value]}})
             ELSE IF cfg.Key \in p.configKeys
             THEN configLoop(p, s, k, r, i + 1)
             ELSE Only({configLoop(p, s3, k, r, i + 1)
                        : s3 \in {Only({[s2 EXCEPT
                                          !.project[k].seen = (cfg.Key :> Len(s2.nodes)) @@ @,
                                          !.row[s2.nodes[Len(s2.nodes)].idx + 1] = cfg.Value]
                                        : s2 \in {initField(addField(s, proj.group, cfg.Key),
                                                            proj.init)}})}})

\* the projection function k of s on r: [p, s, ok]
runProject(p, s, k, r) ==
    LET proj == s.project[k]
    IN  IF proj.kind = "config"
        THEN [p |-> p, s |-> configLoop(p, s, k, r, 1), ok |-> TRUE]
        ELSE Only({Only({IF proj.exact # <<>> /\ val \notin Range(proj.exact)
                         THEN [p |-> p2, s |-> s, ok |-> FALSE]
                         ELSE [p |-> p2,
                               s |-> [s EXCEPT !.row[s.nodes[proj.field].idx + 1] = val],
                               ok |-> TRUE]
                         : val \in {IF proj.kind = "fullname"
                                    THEN Extract(p2.fullExtractor, r)
                                    ELSE Extract(proj.ext, r)}})
                   : p2 \in {IF proj.kind = "fullname" /\ p.fullExtractor = [kind |-> "nil"]
                             THEN [p EXCEPT !.fullExtractor = NewExtractorFullName(p.fullnameKeys)]
                             ELSE p}})

\* the loop over s.project of populateRow, from projection k
RECURSIVE populateLoop(_, _, _, _)
populateLoop(p, s, k, r) ==
    IF k > Len(s.project) THEN [p |-> p, s |-> s, ok |-> TRUE]
    ELSE Only({IF x.ok THEN populateLoop(x.p, x.s, k + 1, r) ELSE x
               : x \in {runProject(p, s, k, r)}})

\* Schema.populateRow: [p, s, ok]
populateRow(p, s, r) ==
    populateLoop(p, [s EXCEPT !.row = [i \in DOMAIN s.row |-> <<>>]], 1, r)

\* mutant of trim: the row is kept as it is
M_trim(row) == row

\* the row without its trailing empty strings, as the loop at the head of
\* internRow leaves it
RECURSIVE trim(_)
trim(row) ==
    IF Len(row) > 0 /\ row[Len(row)] = <<>> THEN trim(SubSeq(row, 1, Len(row) - 1)) ELSE row

\* maphash of the values written one after the other under configSeed: seed
\* 0 gives every row the same sum, seed 1 a sum of its own to every stream
\* of bytes
Sum64(sd, row) == IF sd = 0 THEN <<>> ELSE Concat(row)

\* mutant of equalRow: any Config of the same checksum is taken as equal
M_equalRow(vals, row) == TRUE

\* configNode.equalRow
equalRow(vals, row) ==
    /\ Len(vals) = Len(row)
    /\ \A i \in 1 .. Len(vals) : row[i] = vals[i]

\* Schema.flat: the numbers of the field nodes below node id, in schema order
RECURSIVE flat(_, _)
flat(s, id) ==
    IF s.nodes[id].idx # -1 THEN <<id>>
    ELSE Concat([j \in 1 .. Len(s.nodes[id].sub) |-> flat(s, s.nodes[id].sub[j])])

\* the value of field idx (0-based) in vals, "" beyond its end
valAt(vals, idx) == IF idx < Len(vals) THEN vals[idx + 1] ELSE <<>>

\* the update of the observation orders in internRow, over the nodes fl
RECURSIVE orderLoop(_, _, _, _)
orderLoop(s, fl, j, row) ==
    IF j > Len(fl) THEN s
    ELSE LET node == s.nodes[fl[j]]
             val  == valAt(row, node.idx)
         IN  IF ~node.hasOrder \/ val \in DOMAIN node.order
             THEN orderLoop(s, fl, j + 1, row)
             ELSE Only({orderLoop(s2, fl, j + 1, row)
                        : s2 \in {[s EXCEPT !.nodes[fl[j]].order =
                                     (val :> Cardinality(DOMAIN node.order)) @@ @]}})

\* s.configs[hash]
bucket(s, hash) == IF hash \in DOMAIN s.configs THEN s.configs[hash] ELSE <<>>

\* Schema.internRow under seed sd: [s, c], c the number of the configNode
internRow(sd, s) ==
    LET row   == trim(s.row)
        hash  == Sum64(sd, row)
        cands == bucket(s, hash)
        hits  == {j \in 1 .. Len(cands) : equalRow(s.cnodes[cands[j]].vals, row)}
    IN  IF hits # {}
        THEN [s |-> s, c |-> cands[CHOOSE j \in hits : \A h \in hits : j <= h]]
        ELSE Only({[s |-> [s2 EXCEPT !.cnodes = Append(@, [vals |-> row]),
                                     !.configs = (hash :> Append(cands, Len(s.cnodes) + 1)) @@ @],
                    c |-> Len(s.cnodes) + 1]
                   : s2 \in {orderLoop(s, flat(s, Root), 1, row)}})

\* Schema.Project: [p, s, c, ok]; c = nil is the zero Config
ProjectOf(sd, p, s, r) ==
    Only({IF ~x.ok THEN [p |-> x.p, s |-> x.s, c |-> nil, ok |-> FALSE]
          ELSE Only({[p |-> x.p, s |-> y.s, c |-> y.c, ok |-> TRUE] : y \in {internRow(sd, x.s)}})
          : x \in {populateRow(p, s, r)}})

\* mutant of valuesLoop: the row is interned without the unit of the value
M_valuesLoop(sd, s, r, i, out) ==
    Only({[s |-> y.s, out |-> [n \in 1 .. Len(r.Values) |-> y.c]] : y \in {internRow(sd, s)}})

\* the loop over r.Values of ProjectValues, from value i: [s, out]
RECURSIVE valuesLoop(_, _, _, _, _)
valuesLoop(sd, s, r, i, out) ==
    IF i > Len(r.Values) THEN [s |-> s, out |-> out]
    ELSE Only({valuesLoop(sd, y.s, r, i + 1, Append(out, y.c))
               : y \in {internRow(sd, [s EXCEPT !.row[s.nodes[s.unitNode].idx + 1] =
                                                  r.Values[i].Unit])}})

\* Schema.ProjectValues: [p, s, out, ok]
ProjectValuesOf(sd, p, s, r) ==
    Only({IF ~x.ok THEN [p |-> x.p, s |-> x.s, out |-> <<>>, ok |-> FALSE]
          ELSE IF x.s.unitNode = nil
          THEN Only({[p |-> x.p, s |-> y.s, out |-> [i \in 1 .. Len(r.Values) |-> y.c],
                      ok |-> TRUE] : y \in {internRow(sd, x.s)}})
          ELSE Only({[p |-> x.p, s |-> y.s, out |-> y.out, ok |-> TRUE]
                     : y \in {valuesLoop(sd, x.s, r, 1, <<>>)}})
          : x \in {populateRow(p, s, r)}})

\* Schema.AddValues
AddValuesOf(s) == Only({[s2 EXCEPT !.unitNode = Len(s2.nodes)] : s2 \in {addField(s, nil, UnitKey)}})

\* the position of a in the list of an exact order, 0 when it is not listed
exactIdx(exact, a) ==
    LET at == {i \in 1 .. Len(exact) : exact[i] = a}
    IN  IF at = {} THEN 0 ELSE (CHOOSE i \in at : \A j \in at : j <= i) - 1

\* node.order[a], 0 when a was not observed
orderIdx(node, a) == IF a \in DOMAIN node.order THEN node.order[a] ELSE 0

\* the comparison of two values of a field in less
fieldLess(node, aa, bb) ==
    IF node.less = "nil" THEN orderIdx(node, aa) < orderIdx(node, bb)
    ELSE IF node.less = "alpha" THEN alphaLess(aa, bb)
    ELSE IF node.less = "numeric" THEN numericLess(aa, bb)
    ELSE exactIdx(node.exact, aa) < exactIdx(node.exact, bb)

\* less(flat, a, b): the first field in schema order whose values differ decides
less(s, a, b) ==
    LET fl   == flat(s, Root)
        difs == {j \in 1 .. Len(fl) : valAt(a, s.nodes[fl[j]].idx) # valAt(b, s.nodes[fl[j]].idx)}
    IN  IF difs = {} THEN FALSE
        ELSE LET j    == CHOOSE j \in difs : \A h \in difs : j <= h
                 node == s.nodes[fl[j]]
             IN  fieldLess(node, valAt(a, node.idx), valAt(b, node.idx))

\* A Config is the Schema it comes from and the number of its configNode;
\* a Field is its Schema and its node. The zero Config has neither.
ZeroConfig == [s |-> nil, c |-> nil]

\* Config.Schema
Config_Schema(c) == IF c = ZeroConfig THEN nil ELSE c.s

\* the outcome of a call: a panic, or the value returned
Panics == [panic |-> TRUE]
Returns(v) == [panic |-> FALSE, ret |-> v]

\* commonSchema
commonSchema(configs) ==
    IF Len(configs) = 0 THEN Returns(nil)
    ELSE IF \E i \in 2 .. Len(configs) : Config_Schema(configs[i]) # Config_Schema(configs[1])
    THEN Panics
    ELSE Returns(Config_Schema(configs[1]))

\* c.c.vals of a Config that is not zero, among the Schemas ss
Vals(ss, c) == ss[c.s].cnodes[c.c].vals

\* Config.Less on Configs of the Schemas ss; reading the schema of the
\* zero Config dereferences nil
Config_Less(ss, c, o) ==
    IF c = ZeroConfig \/ o = ZeroConfig THEN Panics
    ELSE IF c.s # o.s THEN Panics
    ELSE Returns(less(ss[c.s], Vals(ss, c), Vals(ss, o)))

\* sort.Slice on a short slice is an insertion sort: the inner loop moves
\* element j down while it is less than the one before it
RECURSIVE insertDown(_, _, _, _)
insertDown(ss, s, v, j) ==
    IF j > 1 /\ less(s, Vals(ss, v[j]), Vals(ss, v[j - 1]))
    THEN Only({insertDown(ss, s, v2, j - 1)
               : v2 \in {[v EXCEPT ![j] = v[j - 1], ![j - 1] = v[j]]}})
    ELSE v

RECURSIVE insertionSort(_, _, _, _)
insertionSort(ss, s, v, i) ==
    IF i > Len(v) THEN v
    ELSE Only({insertionSort(ss, s, v2, i + 1) : v2 \in {insertDown(ss, s, v, i)}})

\* SortConfigs: the slice as the call leaves it. With Configs that are all
\* zero the common Schema is nil, and reading its fields dereferences nil.
SortConfigsOf(ss, configs) ==
    IF Len(configs) = 0 THEN Returns(configs)
    ELSE Only({IF cs.panic \/ cs.ret = nil THEN Panics
               ELSE Returns(insertionSort(ss, ss[cs.ret], configs, 2))
               : cs \in {commonSchema(configs)}})

\* mutant of Config_Get: the Field's Schema is not compared with the Config's
M_Config_Get(ss, c, f) ==
    IF c = ZeroConfig THEN Panics
    ELSE Returns(valAt(Vals(ss, c), ss[f.s].nodes[f.n].idx))

\* Config.Get
Config_Get(ss, c, f) ==
    IF c = ZeroConfig THEN Panics
    ELSE IF c.s # f.s THEN Panics
    ELSE Returns(valAt(Vals(ss, c), ss[f.s].nodes[f.n].idx))

----------------------------------------------------------------------------
(* The projections and Results the Schema is run on.                       *)

KeyA == <<"a">>
KeyB == <<"b">>
FC(key, val) == [Key |-> key, Value |-> val]

SFileConfigs ==
    { <<FC(KeyA, <<"1">>)>>,
      <<FC(KeyA, <<"1", ".", "0">>)>>,
      <<FC(KeyA, <<"1", "0">>)>>,
      <<FC(KeyA, <<"1">>), FC(KeyB, <<"0">>)>>,
      <<FC(KeyB, <<"2">>), FC(KeyA, <<"x">>)>> }

SResults ==
    {[FileConfig |-> fc, FullName |-> <<"X">>,
      Values |-> <<[Value |-> 1, Unit |-> NsOp], [Value |-> 2, Unit |-> BOp],
                   [Value |-> 3, Unit |-> NsOp]>>]
     : fc \in SFileConfigs}

PConfig == ConfigKey                                              \* .config
PConfigNumeric == ConfigKey \o <<"@">> \o OrderNumeric            \* .config@numeric
PAlpha == KeyA \o <<"@">> \o OrderAlpha \o <<",">> \o KeyB        \* a@alpha,b
PConfigB == ConfigKey \o <<",">> \o KeyB                          \* .config,b
PFullname == FullnameKey \o <<",">> \o KeyA                       \* .fullname,a
PBadOrder == KeyA \o <<"@", "x">>                                 \* a@x
PExact == KeyA \o <<":", "(", "1", "0", " ", "1", ")">>           \* a:(10 1)

SProjs == {PConfig, PConfigNumeric, PAlpha, PConfigB, PFullname, PBadOrder, PExact}

NoTab == [s |-> 0, tab |-> <<>>]
NoCall == [op |-> "none"]

NewParser ==
    [configKeys |-> {}, fullnameKeys |-> <<>>, haveConfig |-> FALSE, haveFullname |-> FALSE,
     fullExtractor |-> [kind |-> "nil"]]

SchemaStart ==
    /\ configSeed \in {0, 1}
    /\ pp = NewParser
    /\ schemas = <<>>
    /\ perrs = <<>>
    /\ plog = <<>>
    /\ lessTab = NoTab
    /\ clog = NoCall

\* p.Parse(proj)
ParseProj(proj) ==
    /\ Len(perrs) < MaxParses
    /\ \E x \in {ParseProjection(pp, proj)} :
          /\ pp' = x.p
          /\ schemas' = IF x.err = NoErr THEN Append(schemas, x.s) ELSE schemas
          /\ perrs' = Append(perrs, [proj |-> proj, err |-> x.err, before |-> pp,
                                     s |-> IF x.err = NoErr THEN Len(schemas) + 1 ELSE 0])
    /\ clog' = NoCall
    /\ UNCHANGED <<configSeed, plog, lessTab>>

\* schemas[k].AddValues()
AddValues(k) ==
    /\ schemas[k].unitNode = nil
    /\ schemas' = [schemas EXCEPT ![k] = AddValuesOf(@)]
    /\ lessTab' = NoTab
    /\ clog' = NoCall
    /\ UNCHANGED <<configSeed, pp, perrs, plog>>

\* schemas[k].Project(r); the log keeps the row that was interned
Project(k, r) ==
    /\ Len(plog) < MaxProjects
    /\ \E x \in {ProjectOf(configSeed, pp, schemas[k], r)} :
          /\ pp' = x.p
          /\ schemas' = [schemas EXCEPT ![k] = x.s]
          /\ plog' = Append(plog, [op |-> "Project", s |-> k, r |-> r, ok |-> x.ok,
                                   out |-> IF x.ok THEN <<x.c>> ELSE <<>>,
                                   rows |-> IF x.ok THEN <<x.s.row>> ELSE <<>>,
                                   grew |-> x.s.nFields > schemas[k].nFields,
                                   parses |-> Len(perrs),
                                   unit |-> schemas[k].unitNode # nil])
    /\ lessTab' = NoTab
    /\ clog' = NoCall
    /\ UNCHANGED <<configSeed, perrs>>

\* schemas[k].ProjectValues(r); the log keeps the rows that were interned
ProjectValues(k, r) ==
    /\ Len(plog) < MaxProjects
    /\ \E x \in {ProjectValuesOf(configSeed, pp, schemas[k], r)} :
          /\ pp' = x.p
          /\ schemas' = [schemas EXCEPT ![k] = x.s]
          /\ plog' = Append(plog, [op |-> "ProjectValues", s |-> k, r |-> r, ok |-> x.ok,
                                   out |-> x.out,
                                   rows |-> [i \in DOMAIN x.out |->
                                               IF x.s.unitNode = nil THEN x.s.row
                                               ELSE [x.s.row EXCEPT ![x.s.nodes[x.s.unitNode].idx + 1]
                                                                      = r.Values[i].Unit]],
                                   grew |-> x.s.nFields > schemas[k].nFields,
                                   parses |-> Len(perrs),
                                   unit |-> schemas[k].unitNode # nil])
    /\ lessTab' = NoTab
    /\ clog' = NoCall
    /\ UNCHANGED <<configSeed, perrs>>

\* the comparisons a.Less(b) of all the Configs of schemas[k], as SortConfigs
\* makes them
Less(k) ==
    /\ Len(schemas[k].cnodes) >= 2
    /\ lessTab = NoTab
    /\ lessTab' = [s |-> k,
                   tab |-> [ab \in (1 .. Len(schemas[k].cnodes)) \X (1 .. Len(schemas[k].cnodes)) |->
                              less(schemas[k], schemas[k].cnodes[ab[1]].vals,
                                   schemas[k].cnodes[ab[2]].vals)]]
    /\ UNCHANGED <<configSeed, pp, schemas, perrs, plog, clog>>

SchemaInit == SchemaStart /\ CSIdle /\ ParseIdle /\ FilterIdle /\ ResultIdle /\ OrderIdle /\ WriterIdle /\ PFCIdle

SchemaNext ==
    \/ \E proj \in SProjs : perrs = <<>> /\ ParseProj(proj)
    \/ \E k \in DOMAIN schemas : AddValues(k)
    \/ \E k \in DOMAIN schemas, r \in SResults : Project(k, r)
    \/ \E k \in DOMAIN schemas, r \in SResults : ProjectValues(k, r)
    \/ \E k \in DOMAIN schemas : Less(k)

SpecSchema == SchemaInit /\ [][SchemaNext /\ UNCHANGED <<csVars, parseVars, filterVars, resultVars, orderVars, writerVars, pfcVars>>]_vars

----------------------------------------------------------------------------
(* Claims about Schema and Config                                          *)

\* C3: when a Result is projected, the Schema then grows a field while
\* another Result is projected, and the first Result is projected again,
\* the second projection returns the Config the first returned.
C3_GrowthInvariance ==
    \A i, j, k \in DOMAIN plog :
        (/\ i < j /\ j < k
         /\ plog[i].op = "Project" /\ plog[k].op = "Project"
         /\ plog[i].s = plog[k].s /\ plog[j].s = plog[i].s
         /\ plog[i].r = plog[k].r
         /\ plog[j].grew
         /\ \E c \in Range(plog[j].r.FileConfig) :
               \A d \in Range(plog[i].r.FileConfig) : d.Key # c.Key)
        => plog[i].out = plog[k].out

\* C3 witness: {a:1} is projected, {a:1, b:0} adds the field b, and {a:1}
\* projects again to the Config of one value it gave before
C3_Witness ==
    /\ Len(plog) = 3
    /\ plog[1].op = "Project" /\ plog[3].op = "Project"
    /\ plog[1].r.FileConfig = <<FC(KeyA, <<"1">>)>>
    /\ plog[2].r.FileConfig = <<FC(KeyA, <<"1">>), FC(KeyB, <<"0">>)>>
    /\ plog[3].r = plog[1].r
    /\ plog[2].grew
    /\ plog[1].out = plog[3].out
    /\ schemas[1].nFields = 2
    /\ schemas[1].cnodes[plog[3].out[1]].vals = <<<<"1">>>>

\* two rows are equal when padded with empty strings
PadEq(r1, r2) ==
    \A f \in 0 .. (IF Len(r1) > Len(r2) THEN Len(r1) ELSE Len(r2)) - 1 : valAt(r1, f) = valAt(r2, f)

\* the Configs returned so far with the rows they were returned for
Returned ==
    UNION {{[s |-> plog[i].s, c |-> plog[i].out[x], row |-> plog[i].rows[x]]
            : x \in DOMAIN plog[i].out} : i \in DOMAIN plog}

\* C4: two Configs returned by Project or ProjectValues of one Schema are
\* the same Config if and only if their rows hold the same value in every
\* field, a field beyond the end of a row counting as empty; this holds
\* also for rows of equal checksum.
C4_ConfigIdentity ==
    \A x, y \in Returned :
        x.s = y.s => ((x.c = y.c) <=> PadEq(x.row, y.row))

\* C4 witness: the rows (1, 0) and (10) have the same checksum, the bytes
\* written being the same, and are returned as two Configs
C4_Witness ==
    /\ configSeed = 1
    /\ \E x, y \in Returned :
          /\ x.s = y.s
          /\ ~PadEq(x.row, y.row)
          /\ Sum64(configSeed, trim(x.row)) = Sum64(configSeed, trim(y.row))
          /\ x.c # y.c

\* the comparators of the fields of s are first, alpha or numeric
BuiltinOrders(s) ==
    \A id \in DOMAIN s.nodes :
        s.nodes[id].idx # -1 => (s.nodes[id].hasOrder \/ s.nodes[id].less \in {"alpha", "numeric"})

\* C5 (as claimed): on the Configs of one Schema whose fields use the first,
\* alpha or numeric comparator, Config.Less is irreflexive and transitive,
\* and of two distinct Configs exactly one is less than the other, Configs
\* from before and after the growth of the Schema included.
C5_TotalOrderAsClaimed ==
    (lessTab # NoTab /\ BuiltinOrders(schemas[lessTab.s])) =>
        LET L(a, b) == lessTab.tab[<<a, b>>]
            C == 1 .. Len(schemas[lessTab.s].cnodes)
        IN  /\ \A a \in C : ~L(a, a)
            /\ \A a, b, c \in C : (L(a, b) /\ L(b, c)) => L(a, c)
            /\ \A a, b \in C : a # b => (L(a, b) <=> ~L(b, a))

\* the i-th of the values of `a:(10 1)`, and the position of a value in them
ExactValues == << <<"1", "0">>, <<"1">> >>
ExactPos(v) == CHOOSE i \in DOMAIN ExactValues : ExactValues[i] = v

\* C12: Parse accepts `a:(10 1)`; Project of the Schema it returns matches a
\* Result exactly when its value of a is 10 or 1, and the Configs are
\* ordered by the position of their value in the list.
C12_ExactAsClaimed ==
    \A k \in DOMAIN perrs :
        perrs[k].proj = PExact =>
            /\ perrs[k].err = NoErr
            /\ \A i \in DOMAIN plog :
                  (plog[i].s = perrs[k].s /\ plog[i].op = "Project") =>
                      (plog[i].ok <=> GetFileConfig(plog[i].r, KeyA) \in Range(ExactValues))
            /\ lessTab.s = perrs[k].s =>
                  \A ab \in DOMAIN lessTab.tab :
                      lessTab.tab[ab] <=>
                          ExactPos(schemas[lessTab.s].cnodes[ab[1]].vals[1])
                              < ExactPos(schemas[lessTab.s].cnodes[ab[2]].vals[1])

\* Parse(`a:(10 1)`) has returned the error "expected ," at the closing
\* parenthesis
C12_Rejected ==
    \E k \in DOMAIN perrs :
        /\ perrs[k].proj = PExact
        /\ perrs[k].err = SyntaxError(7, "expected ,", <<>>)

\* when Schema k first had the value v in field idx of a row it projected:
\* the number of the call in the log and of the row within the call
ObservedAt(k, idx, v) ==
    LET hit == {4 * i + m : i \in {h \in DOMAIN plog : plog[h].s = k}, m \in 1 .. 3}
        seen == {t \in hit : /\ (t % 4) \in DOMAIN plog[t \div 4].rows
                             /\ valAt(plog[t \div 4].rows[t % 4], idx) = v}
    IN  CHOOSE t \in seen : \A u \in seen : t <= u

\* C14 as a predicate of the pairs the comparisons of lessTab cover: a pair
\* that first differs, in schema order, at a field with the default order is
\* ordered by which of the two values the Schema observed first. With
\* present, only the pairs in which neither value is empty are meant.
FirstObservedOrder(present) ==
    lessTab # NoTab =>
        LET k  == lessTab.s
            s  == schemas[k]
            fl == flat(s, Root)
        IN  \A ab \in DOMAIN lessTab.tab :
               LET a == s.cnodes[ab[1]].vals
                   b == s.cnodes[ab[2]].vals
                   d == {j \in DOMAIN fl : valAt(a, s.nodes[fl[j]].idx) # valAt(b, s.nodes[fl[j]].idx)}
               IN  d # {} =>
                     LET j    == CHOOSE x \in d : \A y \in d : x <= y
                         node == s.nodes[fl[j]]
                         va   == valAt(a, node.idx)
                         vb   == valAt(b, node.idx)
                     IN  (node.hasOrder /\ (present => va # <<>> /\ vb # <<>>)) =>
                            (lessTab.tab[ab] <=>
                                ObservedAt(k, node.idx, va) < ObservedAt(k, node.idx, vb))

\* C14: two Configs that first differ at a field with the default order are
\* ordered by Less according to which of their two values of that field the
\* Schema observed first, also when Project calls added fields.
C14_FirstObservedAsClaimed == FirstObservedOrder(FALSE)

\* the same for the pairs in which both Configs have a value for the field
C14_WhenPresent == FirstObservedOrder(TRUE)

\* the Schema of `.config` projected {a:1} and then {a:1, b:0}, and Less
\* puts neither of the two Configs before the other
C14_Unordered ==
    /\ lessTab # NoTab
    /\ Len(plog) = 2
    /\ plog[1].r.FileConfig = <<FC(KeyA, <<"1">>)>>
    /\ plog[2].r.FileConfig = <<FC(KeyA, <<"1">>), FC(KeyB, <<"0">>)>>
    /\ plog[2].grew
    /\ schemas[lessTab.s].cnodes = <<[vals |-> << <<"1">> >>], [vals |-> << <<"1">>, <<"0">> >>]>>
    /\ ~lessTab.tab[<<1, 2>>] /\ ~lessTab.tab[<<2, 1>>]

\* Config.Get of the field with node number id, for the Config c of s
GetField(s, c, id) == valAt(s.cnodes[c].vals, s.nodes[id].idx)

\* C17: ProjectValues(r) returns one Config per entry of r.Values; when the
\* Schema has a .unit field, the Configs of two values are == exactly when
\* their units are equal and they have the same value in every other
\* field; without a .unit field every Config returned is the Config that
\* Project(r) returns.
C17_ProjectValues ==
    \A i \in DOMAIN plog :
        (plog[i].op = "ProjectValues" /\ plog[i].ok) =>
            LET s   == schemas[plog[i].s]
                r   == plog[i].r
                out == plog[i].out
            IN  /\ Len(out) = Len(r.Values)
                /\ plog[i].unit =>
                     \A m, n \in DOMAIN out :
                        /\ (out[m] = out[n]) <=> (r.Values[m].Unit = r.Values[n].Unit)
                        /\ \A id \in Range(flat(s, Root)) \ {s.unitNode} :
                              GetField(s, out[m], id) = GetField(s, out[n], id)
                /\ ~plog[i].unit =>
                     \A j \in DOMAIN plog :
                        (plog[j].op = "Project" /\ plog[j].s = plog[i].s /\ plog[j].r = r) =>
                            /\ plog[j].ok
                            /\ \A m \in DOMAIN out : out[m] = plog[j].out[1]

\* ProjectValues ran on a Schema with a .unit field for a Result with two
\* values of one unit and one of another, after it had run without the
\* field on a Result that Project projected too
C17_Witness ==
    \E i, j, k \in DOMAIN plog :
        /\ plog[i].op = "ProjectValues" /\ plog[i].ok /\ plog[i].unit
        /\ \E m, n \in DOMAIN plog[i].out :
              m # n /\ plog[i].r.Values[m].Unit = plog[i].r.Values[n].Unit
        /\ \E m, n \in DOMAIN plog[i].out :
              plog[i].r.Values[m].Unit # plog[i].r.Values[n].Unit
        /\ Cardinality(Range(flat(schemas[plog[i].s], Root))) >= 2
        /\ plog[j].op = "ProjectValues" /\ plog[j].ok /\ ~plog[j].unit
        /\ plog[k].op = "Project" /\ plog[k].s = plog[j].s /\ plog[k].r = plog[j].r

\* the nodes of Schema s that are fields
FieldNodes(s) == {n \in DOMAIN s.nodes : s.nodes[n].idx # -1}

\* the indices of s are those of creation: distinct, in [0, nFields), and the
\* row buffer has one entry for each
IndexedInOrder(s) ==
    /\ \A n \in FieldNodes(s) : s.nodes[n].idx \in 0 .. s.nFields - 1
    /\ \A n, m \in FieldNodes(s) : n < m => s.nodes[n].idx < s.nodes[m].idx
    /\ Cardinality(FieldNodes(s)) = s.nFields
    /\ Len(s.row) = s.nFields

\* one step keeps every Schema and every node, leaves the index of every
\* field as it was, and gives a new field an index above all of them
IndicesKept ==
    /\ DOMAIN schemas \subseteq DOMAIN schemas'
    /\ \A k \in DOMAIN schemas :
          LET s == schemas[k]  t == schemas'[k]
          IN  /\ DOMAIN s.nodes \subseteq DOMAIN t.nodes
              /\ \A n \in DOMAIN s.nodes : t.nodes[n].idx = s.nodes[n].idx
              /\ \A n \in FieldNodes(t) \ DOMAIN s.nodes :
                    \A m \in FieldNodes(s) : t.nodes[n].idx > s.nodes[m].idx

\* C25: the field indices of a Schema are assigned in creation order and
\* never change: after any Parse, AddValues, Project and ProjectValues calls
\* every field has a distinct index in [0, nFields), the row buffer has
\* nFields entries, and a field that a later call adds gets an index above
\* every existing one, wherever the field sits in the order of the Schema
C25_FieldIndices ==
    /\ [](\A k \in DOMAIN schemas : IndexedInOrder(schemas[k]))
    /\ [][IndicesKept]_vars

\* a Project call has added the field of a file key to the `.config` group of
\* `.config,b`: it is first in the order of the Schema and has the larger
\* index
C25_Witness ==
    \E k \in DOMAIN schemas :
        LET s == schemas[k]  fl == flat(s, Root)
        IN  /\ \E j \in DOMAIN plog : plog[j].s = k /\ plog[j].grew
            /\ Len(fl) >= 2
            /\ s.nodes[fl[1]].idx > s.nodes[fl[2]].idx
            /\ Len(s.row) = s.nFields

----------------------------------------------------------------------------
(* One ProjectionParser parsing several projections                        *)

SessionProjs == {PConfig, KeyA, PExact}

SessionResults ==
    {r \in SResults : r.FileConfig \in { <<FC(KeyA, <<"1">>)>>,
                                         <<FC(KeyA, <<"1">>), FC(KeyB, <<"0">>)>> }}

\* the Configs the Schemas have returned, and the zero Config
Configs == {ZeroConfig} \cup
           UNION {{[s |-> k, c |-> c] : c \in DOMAIN schemas[k].cnodes} : k \in DOMAIN schemas}

\* Schema.Fields of every Schema
Fields == UNION {{[s |-> k, n |-> n] : n \in Range(flat(schemas[k], Root))} : k \in DOMAIN schemas}

\* c.Less(o)
ConfigLess(c, o) ==
    /\ clog = NoCall
    /\ clog' = [op |-> "Less", args |-> <<c, o>>, out |-> Config_Less(schemas, c, o)]
    /\ UNCHANGED <<configSeed, pp, schemas, perrs, plog, lessTab>>

\* SortConfigs(configs)
SortConfigs(configs) ==
    /\ clog = NoCall
    /\ clog' = [op |-> "SortConfigs", args |-> configs, out |-> SortConfigsOf(schemas, configs)]
    /\ UNCHANGED <<configSeed, pp, schemas, perrs, plog, lessTab>>

\* c.Get(f)
ConfigGet(c, f) ==
    /\ clog = NoCall
    /\ clog' = [op |-> "Get", args |-> <<c, f>>, out |-> Config_Get(schemas, c, f)]
    /\ UNCHANGED <<configSeed, pp, schemas, perrs, plog, lessTab>>

\* Parse and Project calls on one parser, in any order, and calls of Less,
\* SortConfigs and Get on the Configs and Fields of its Schemas
SessionNext ==
    \/ \E proj \in SessionProjs : ParseProj(proj)
    \/ \E k \in DOMAIN schemas, r \in SessionResults : Project(k, r)
    \/ \E c, o \in Configs : ConfigLess(c, o)
    \/ \E n \in 0 .. MaxSort : \E configs \in [1 .. n -> Configs] : SortConfigs(configs)
    \/ \E c \in Configs, f \in Fields : ConfigGet(c, f)

SpecSession == SchemaInit /\ [][SessionNext /\ UNCHANGED <<csVars, parseVars, filterVars, resultVars, orderVars, writerVars, pfcVars>>]_vars

\* the Schema that the j-th Parse call returned is the one of `.config`
IsConfigSchema(k) == \E j \in DOMAIN perrs : perrs[j].s = k /\ perrs[j].proj = PConfig

\* the value the row of Project call i holds for key in Schema k: the value
\* of the field of that name, "" when there is none
RowValue(i, key) ==
    LET s == schemas[plog[i].s]
        fs == {n \in DOMAIN s.nodes : s.nodes[n].name = key /\ s.nodes[n].idx # -1}
    IN  IF fs = {} THEN <<>>
        ELSE valAt(plog[i].rows[1], s.nodes[CHOOSE n \in fs : TRUE].idx)

\* C13: once Parse has accepted the projection `a`, no Project of the Schema
\* of `.config` of the same parser puts a value of a into its Config,
\* whether `.config` was parsed before `a` or after it.
C13_ExclusionAsClaimed ==
    \A i \in DOMAIN plog, j \in DOMAIN perrs :
        ( /\ plog[i].ok
          /\ IsConfigSchema(plog[i].s)
          /\ perrs[j].proj = KeyA /\ perrs[j].err = NoErr
          /\ j <= plog[i].parses )
        => RowValue(i, KeyA) = <<>>

\* the same, for the Schemas of `.config` that projected no Result with the
\* key a before `a` was parsed
C13_WhenUnseen ==
    \A i \in DOMAIN plog, j \in DOMAIN perrs :
        ( /\ plog[i].ok
          /\ IsConfigSchema(plog[i].s)
          /\ perrs[j].proj = KeyA /\ perrs[j].err = NoErr
          /\ j <= plog[i].parses
          /\ ~\E h \in 1 .. i - 1 : /\ plog[h].s = plog[i].s
                                    /\ plog[h].parses < j
                                    /\ RowValue(h, KeyA) # <<>> )
        => RowValue(i, KeyA) = <<>>

\* `.config` was parsed before `a`, and a Project of its Schema after the
\* Parse of `a` left a out
C13_ExcludedAfter ==
    \E i \in DOMAIN plog, j \in DOMAIN perrs :
        /\ plog[i].ok /\ IsConfigSchema(plog[i].s)
        /\ perrs[j].proj = KeyA /\ perrs[j].err = NoErr
        /\ perrs[j].s > plog[i].s
        /\ j <= plog[i].parses
        /\ RowValue(i, KeyA) = <<>>
        /\ RowValue(i, KeyB) = <<"0">>

\* C15: Less panics when the two Configs have different Schemas, SortConfigs
\* panics when an element has another Schema than the first, and Get panics
\* when the Field's Schema is not the Config's.
C15_ForeignSchemaPanics ==
    /\ clog.op = "Less" =>
          (Config_Schema(clog.args[1]) # Config_Schema(clog.args[2]) => clog.out.panic)
    /\ clog.op = "SortConfigs" =>
          ((\E i \in DOMAIN clog.args : Config_Schema(clog.args[i]) # Config_Schema(clog.args[1]))
              => clog.out.panic)
    /\ clog.op = "Get" =>
          (Config_Schema(clog.args[1]) # clog.args[2].s => clog.out.panic)

\* C15 witness: SortConfigs was called with a Config of one Schema followed
\* by a Config of another, both obtained from Project, and panicked.
C15_Witness ==
    /\ clog.op = "SortConfigs"
    /\ Len(clog.args) = 2
    /\ clog.args[1] # ZeroConfig /\ clog.args[2] # ZeroConfig
    /\ clog.args[1].s # clog.args[2].s
    /\ clog.out.panic

----------------------------------------------------------------------------
(* Tokenize, Parse and ProjectionParser.Parse on any string                *)

\* the pieces the strings are put together from
SyntaxLexemes ==
    { <<"a">>, <<"a", ":">>, <<":">>, <<"(">>, <<")">>, <<"@">>, <<",">>, <<" ">>,
      <<"-">>, <<"*">>, <<"\"">>, <<"\\", "Q">> }

SyntaxStart ==
    /\ \E p \in UNION {[1 .. n -> SyntaxLexemes] : n \in 0 .. MaxLexemes} :
          /\ qform = [terms |-> <<>>, conns |-> <<>>, pieces |-> p]
          /\ query = Flatten(p)
    /\ pres = NotCalled

SyntaxInit == SyntaxStart /\ CSIdle /\ FilterIdle /\ SchemaIdle /\ ResultIdle /\ OrderIdle /\ WriterIdle /\ PFCIdle

\* kvql.Parse(query), the rendering of its Query and, with a new
\* ProjectionParser, p.Parse(query)
SyntaxNext ==
    \/ DoParse /\ UNCHANGED <<csVars, filterVars, schemaVars, resultVars, orderVars, writerVars, pfcVars>>
    \/ Render /\ UNCHANGED <<csVars, filterVars, schemaVars, resultVars, orderVars, writerVars, pfcVars>>
    \/ ParseProj(query) /\ UNCHANGED <<csVars, parseVars, filterVars, resultVars, orderVars, writerVars, pfcVars>>

SpecSyntax == SyntaxInit /\ [][SyntaxNext]_vars

\* the state of a ProjectionParser that its Schemas share: the excluded file
\* and name keys, and whether .config and .fullname were projected
Shared(p) == <<p.configKeys, p.fullnameKeys, p.haveConfig, p.haveFullname>>

\* the parser as the j-th Parse call left it
AfterParse(j) == IF j < Len(perrs) THEN perrs[j + 1].before ELSE pp

\* C29: a Parse call that returns an error leaves the shared state of the
\* parser (the excluded file and name keys, and whether .config and .fullname
\* were projected) as it was before the call
C29_FailedParseAsClaimed ==
    \A j \in DOMAIN perrs :
        perrs[j].err # NoErr => Shared(AfterParse(j)) = Shared(perrs[j].before)

\* Parse of `a a` returned an error and left the key a among the excluded
\* file keys
C29_KeyRegistered ==
    /\ Len(perrs) = 1
    /\ perrs[1].proj = <<"a", " ", "a">>
    /\ perrs[1].err # NoErr
    /\ perrs[1].before.configKeys = {}
    /\ pp.configKeys = {KeyA}

\* after a Parse that returned an error, the Schema of a later `.config`
\* projected a Result with the file key a and has no field for it
C29_ConfigLosesKey ==
    \E j \in DOMAIN perrs, k \in DOMAIN schemas, i \in DOMAIN plog :
        /\ perrs[1].err # NoErr
        /\ j > 1 /\ perrs[j].s = k /\ perrs[j].proj = PConfig
        /\ \A m \in 1 .. j - 1 : perrs[m].err # NoErr
        /\ plog[i].s = k /\ plog[i].ok
        /\ \E e \in DOMAIN plog[i].r.FileConfig : plog[i].r.FileConfig[e].Key = KeyA
        /\ \A n \in DOMAIN schemas[k].nodes : schemas[k].nodes[n].name # KeyA

\* the token stream ends with its only EOF token, at offset len(q)
EndsWithEOF(q, toks) ==
    /\ toks # <<>>
    /\ toks[Len(toks)] = Tok(EOFKind, Len(q), <<>>)
    /\ \A k \in 1 .. Len(toks) - 1 : toks[k].Kind # EOFKind

\* err is a SyntaxError value for q: an offset into q and a message
IsSyntaxError(q, err) == err.Off \in 0 .. Len(q) /\ err.Msg # "nil"

\* C11: for every string, Tokenize, Parse and ProjectionParser.Parse return,
\* either with success or with a SyntaxError whose offset lies in the string;
\* none of them panics, and the token stream ends with the EOF token.
C11_NoPanicAsClaimed ==
    /\ \A t \in {Tokenize(query)} :
          IF t.err = NoErr THEN EndsWithEOF(query, t.toks) ELSE IsSyntaxError(query, t.err)
    /\ pres.called =>
          /\ ~Panicked(pres.ret.err)
          /\ pres.ret.err # NoErr => IsSyntaxError(query, pres.ret.err)
          /\ pres.ret.err = NoErr => pres.ret.q # NilQuery
    /\ \A k \in DOMAIN perrs :
          IF perrs[k].err = NoErr THEN perrs[k].s \in DOMAIN schemas
          ELSE IsSyntaxError(query, perrs[k].err)

\* what remains of C11 when the calls that panic are left out
C11_WhenReturning ==
    /\ \A t \in {Tokenize(query)} :
          IF t.err = NoErr THEN EndsWithEOF(query, t.toks) ELSE IsSyntaxError(query, t.err)
    /\ (pres.called /\ ~Panicked(pres.ret.err)) =>
          /\ pres.ret.err # NoErr => IsSyntaxError(query, pres.ret.err)
          /\ pres.ret.err = NoErr => pres.ret.q # NilQuery
    /\ \A k \in DOMAIN perrs :
          IF perrs[k].err = NoErr THEN perrs[k].s \in DOMAIN schemas
          ELSE IsSyntaxError(query, perrs[k].err)

\* the call Parse(`a:\Q`) has panicked in regexp.MustCompile
C11_PanicReached ==
    /\ query = <<"a", ":", "\\", "Q">>
    /\ pres.called
    /\ Panicked(pres.ret.err)

\* the round trip of C16 for the queries that satisfy only
RoundTrip(only) ==
    ("str" \in DOMAIN pres /\ only) =>
        /\ pres.again.err = NoErr
        /\ String(pres.again.q) = pres.str

\* C16: when Parse accepts a string, the String() of its Query is a string
\* that Parse accepts, and the Query of that string has the same String().
C16_RoundTripAsClaimed == RoundTrip(TRUE)

\* a Query holds an operator node without operands, as that of `*`
RECURSIVE HasEmptyOp(_)
HasEmptyOp(q) ==
    q.t = "op" /\ (q.Exprs = <<>> \/ \E i \in DOMAIN q.Exprs : HasEmptyOp(q.Exprs[i]))

\* the words of a Query: the keys and the texts of its matches
RECURSIVE Words(_)
Words(q) ==
    IF q.t = "match" THEN {q.Key, q.match}
    ELSE UNION {Words(q.Exprs[i]) : i \in DOMAIN q.Exprs}

\* the same for the Queries without an operator node that has no operands
\* and whose words are not empty and quote renders as they are
C16_WhenPlain ==
    RoundTrip(/\ ~HasEmptyOp(pres.ret.q)
              /\ \A w \in Words(pres.ret.q) : w # <<>> /\ quote(w) = w)

\* Parse accepted `*`, rendered it as `()`, and rejects that string
C16_StarRejected ==
    /\ query = <<"*">>
    /\ "str" \in DOMAIN pres
    /\ pres.str = <<"(", ")">>
    /\ pres.again.err # NoErr

\* token k of toks is the operator token `-` or `*`
IsDashStar(toks, k) == toks[k].Kind \in {"-", "*"}

\* token k of toks begins at the start of q, after a space or after an
\* operator token; afterQuote admits the end of a quoted word as well
AtTokenStart(q, toks, k, afterQuote) ==
    \/ toks[k].Off = 0
    \/ IsSpaceCh(q[toks[k].Off])
    \/ k > 1 /\ toks[k - 1].Kind \notin {"w", "q"} /\ toks[k - 1].Off + 1 = toks[k].Off
    \/ afterQuote /\ k > 1 /\ toks[k - 1].Kind = "q"
         /\ toks[k - 1].Off + Len(toks[k - 1].Tok) + 2 = toks[k].Off

\* the `-` or `*` at position p of q (1-based) is a character of a word
\* token that began before it
InsideWord(toks, p) ==
    \E k \in DOMAIN toks :
        /\ toks[k].Kind \in {"w", "q"}
        /\ toks[k].Off + 1 < p
        /\ p <= toks[k].Off + Len(toks[k].Tok) + (IF toks[k].Kind = "q" THEN 1 ELSE 0)

\* Tokenize(query) made `-` and `*` operator tokens only at the places
\* AtTokenStart admits, and left every other `-` and `*` inside a word
DashStar(afterQuote) ==
    (pres.called /\ Tokenize(query).err = NoErr) =>
        LET toks == Tokenize(query).toks
        IN  /\ \A k \in DOMAIN toks :
                  IsDashStar(toks, k) =>
                      /\ toks[k].Tok = <<query[toks[k].Off + 1]>>
                      /\ AtTokenStart(query, toks, k, afterQuote)
            /\ \A p \in DOMAIN query :
                  query[p] \in {"-", "*"} =>
                      \/ \E k \in DOMAIN toks : IsDashStar(toks, k) /\ toks[k].Off = p - 1
                      \/ InsideWord(toks, p)
            /\ \A k \in DOMAIN toks :
                  toks[k].Kind = "w" => toks[k].Tok = Slice(query, toks[k].Off + 1,
                                                            WordEnd(query, toks[k].Off + 1) - 1)

\* C20: Tokenize makes `-` and `*` single-character operator tokens only at
\* the start of a token, that is after a space, after an operator or at the
\* start of the input; inside an unquoted word they are part of the word,
\* which is one token.
C20_OperatorAsClaimed == DashStar(FALSE)

\* the same when the end of a quoted word counts as the start of a token
C20_AfterQuoteToo == DashStar(TRUE)

\* Tokenize made the `-` that follows the closing quote of a quoted word an
\* operator token
C20_DashAfterQuote ==
    /\ pres.called
    /\ query = <<"\"", "\"", "-">>
    /\ Tokenize(query).err = NoErr
    /\ IsDashStar(Tokenize(query).toks, 2)

\* Tokenize left the `-` of the word a-a inside one word token
C20_DashInsideWord ==
    /\ pres.called
    /\ query = <<"a", "-", "a">>
    /\ Tokenize(query).toks[1] = Tok("w", 0, query)

----------------------------------------------------------------------------
(* benchfmt.Result: SetFileConfig and its index (result.go)                *)

KeyC == <<"c">>
RKeys == {KeyA, KeyB, KeyC}
RValues == {<<>>, <<"1">>, <<"2">>}

\* a nil map, and a map
NilMap == [isNil |-> TRUE, m |-> <<>>]
Map(m) == [isNil |-> FALSE, m |-> m]

\* the zero Config of package benchfmt
ZeroFC == FC(<<>>, <<>>)

\* a Result initialized by a struct literal: no index, no spare capacity
Literal(fc) == [FileConfig |-> fc, len |-> Len(fc), configPos |-> NilMap]

\* the Results the calls start from: the zero Result and two literals
RLiterals == {<<>>, <<FC(KeyA, <<"1">>)>>, <<FC(KeyB, <<"2">>), FC(KeyA, <<"1">>)>>}

\* the map m without key
MapDelete(m, key) == [k \in DOMAIN m \ {key} |-> m[k]]

\* the index the loop of FileConfigIndex constructs: a later entry of a key
\* overwrites an earlier one
NewIndex(r) ==
    [k \in {r.FileConfig[i].Key : i \in 1 .. r.len} |->
        (CHOOSE i \in 1 .. r.len :
            /\ r.FileConfig[i].Key = k
            /\ \A j \in 1 .. r.len : r.FileConfig[j].Key = k => j <= i) - 1]

\* Result.FileConfigIndex: [r, pos, ok]
FileConfigIndex(r, key) ==
    LET r1 == IF r.configPos.isNil THEN [r EXCEPT !.configPos = Map(NewIndex(r))] ELSE r
        ok == key \in DOMAIN r1.configPos.m
    IN  [r |-> r1, pos |-> IF ok THEN r1.configPos.m[key] ELSE 0, ok |-> ok]

\* append(fc, cfg) for a slice that is full: the array of the new capacity,
\* which doubles (1 for an empty slice) at these sizes
Grow(fc, cfg) ==
    fc \o <<cfg>> \o [i \in 1 .. (IF Len(fc) = 0 THEN 0 ELSE Len(fc) - 1) |-> ZeroFC]

\* Result.ensureFileConfig: [r, at], at the index of the Config returned
ensureFileConfig(r, key) ==
    LET x == FileConfigIndex(r, key)
    IN  IF x.ok THEN [r |-> x.r, at |-> x.pos]
        ELSE LET r2 == [x.r EXCEPT !.configPos.m = (key :> x.r.len) @@ @]
             IN  IF r2.len < Len(r2.FileConfig)
                 THEN [r |-> [r2 EXCEPT !.len = @ + 1, !.FileConfig[r2.len + 1].Key = key],
                       at |-> r2.len]
                 ELSE [r |-> [r2 EXCEPT !.len = @ + 1,
                                        !.FileConfig = Grow(r2.FileConfig, FC(key, <<>>))],
                       at |-> r2.len]

\* mutant of deleteFileConfig: the index keeps the old position of the
\* Config that fills the hole
M_deleteFileConfig(r, key) ==
    LET x == FileConfigIndex(r, key)
    IN  IF ~x.ok THEN x.r
        ELSE [x.r EXCEPT !.FileConfig[x.pos + 1] = x.r.FileConfig[x.r.len],
                         !.FileConfig[x.r.len] = x.r.FileConfig[x.pos + 1],
                         !.len = @ - 1,
                         !.configPos.m = MapDelete(@, key)]

\* Result.deleteFileConfig
deleteFileConfig(r, key) ==
    LET x == FileConfigIndex(r, key)
    IN  IF ~x.ok THEN x.r
        ELSE LET cfg2 == x.r.FileConfig[x.r.len]
             IN  [x.r EXCEPT !.FileConfig[x.pos + 1] = cfg2,
                             !.FileConfig[x.r.len] = x.r.FileConfig[x.pos + 1],
                             !.len = @ - 1,
                             !.configPos.m = MapDelete((cfg2.Key :> x.pos) @@ @, key)]

\* Result.SetFileConfig
SetFileConfigOf(r, key, value) ==
    IF value = <<>> THEN deleteFileConfig(r, key)
    ELSE LET x == ensureFileConfig(r, key)
         IN  [x.r EXCEPT !.FileConfig[x.at + 1].Value = value]

\* Result.GetFileConfig: [r, ret]
GetFileConfigOf(r, key) ==
    LET x == FileConfigIndex(r, key)
    IN  [r |-> x.r, ret |-> IF x.ok THEN x.r.FileConfig[x.pos + 1].Value ELSE <<>>]

\* what a call SetFileConfig(key, value) on r does: it appends, reuses old
\* space, updates, deletes an absent key, the last key or a key before it
SetKind(r, key, value) ==
    LET x == FileConfigIndex(r, key)
    IN  IF value = <<>>
        THEN IF ~x.ok THEN "absent" ELSE IF x.pos = r.len - 1 THEN "last" ELSE "swap"
        ELSE IF x.ok THEN "update"
        ELSE IF r.len < Len(r.FileConfig) THEN "reuse" ELSE "append"

ResultStart ==
    /\ \E fc \in RLiterals :
          /\ result = Literal(fc)
          /\ rhist = [last |-> [k \in RKeys |->
                                  IF \E i \in DOMAIN fc : fc[i].Key = k
                                  THEN (CHOOSE c \in Range(fc) : c.Key = k).Value
                                  ELSE <<>>],
                      op |-> [name |-> "none"], dels |-> {}]
    /\ fullName = <<>>
    /\ nparts = [called |-> FALSE]

\* result.SetFileConfig(key, value)
SetFileConfig(key, value) ==
    /\ result' = SetFileConfigOf(result, key, value)
    /\ rhist' = [last |-> [rhist.last EXCEPT ![key] = value],
                 op |-> [name |-> "SetFileConfig", key |-> key, value |-> value,
                         kind |-> SetKind(result, key, value)],
                 dels |-> IF value = <<>> THEN rhist.dels \cup {SetKind(result, key, value)}
                          ELSE rhist.dels]
    /\ UNCHANGED <<fullName, nparts>>

\* result.GetFileConfig(key)
GetFileConfigCall(key) ==
    /\ \E x \in {GetFileConfigOf(result, key)} :
          /\ result' = x.r
          /\ rhist' = [rhist EXCEPT !.op = [name |-> "GetFileConfig", key |-> key, ret |-> x.ret]]
    /\ UNCHANGED <<fullName, nparts>>

ResultInit == ResultStart /\ CSIdle /\ ParseIdle /\ FilterIdle /\ SchemaIdle /\ OrderIdle /\ WriterIdle /\ PFCIdle

ResultNext ==
    \/ \E key \in RKeys, value \in RValues : SetFileConfig(key, value)
    \/ \E key \in RKeys : GetFileConfigCall(key)

SpecResult ==
    ResultInit /\ [][ResultNext /\ UNCHANGED <<csVars, parseVars, filterVars, schemaVars, orderVars, writerVars, pfcVars>>]_vars

\* C18: after any calls of SetFileConfig the index agrees with the slice:
\* FileConfigIndex(FileConfig[i].Key) is (i, true) for every i, the index
\* holds exactly len(FileConfig) keys, no key is in the slice twice, and
\* GetFileConfig(k) is the value last set for k, "" when k was deleted or
\* never set.
C18_IndexAgrees ==
    LET idx == FileConfigIndex(result, KeyA).r.configPos.m
    IN  /\ \A i \in 1 .. result.len :
              LET x == FileConfigIndex(result, result.FileConfig[i].Key)
              IN  x.ok /\ x.pos = i - 1
        /\ Cardinality(DOMAIN idx) = result.len
        /\ \A i, j \in 1 .. result.len :
              result.FileConfig[i].Key = result.FileConfig[j].Key => i = j
        /\ \A k \in RKeys : GetFileConfigOf(result, k).ret = rhist.last[k]
        /\ rhist.op.name = "GetFileConfig" => rhist.op.ret = rhist.last[rhist.op.key]

\* SetFileConfig has deleted an absent key, the last key and a key before
\* the last, its last call put a key into old space of the array, and two
\* keys are set
C18_Witness ==
    /\ rhist.dels = {"absent", "last", "swap"}
    /\ rhist.op.name = "SetFileConfig"
    /\ rhist.op.kind = "reuse"
    /\ result.len >= 2

----------------------------------------------------------------------------
(* benchfmt.NameParts (result.go)                                          *)

NameChars == {"X", "/", "-", "8", "="}

\* the full names of up to MaxName characters
FullNames == UNION {[1 .. n -> NameChars] : n \in 0 .. MaxName}

\* mutant of splitScan: a name has no GOMAXPROCS
M_splitScan(buf, i) == [prefix |-> buf, gomaxprocs |-> <<>>]

\* the loop of splitGomaxprocs at index i (0-based); gomaxprocs nil is <<>>
RECURSIVE splitScan(_, _)
splitScan(buf, i) ==
    IF i < 0 THEN [prefix |-> buf, gomaxprocs |-> <<>>]
    ELSE IF buf[i + 1] = "-" /\ i < Len(buf) - 1
    THEN [prefix |-> SubSeq(buf, 1, i), gomaxprocs |-> SubSeq(buf, i + 1, Len(buf))]
    ELSE IF buf[i + 1] \notin Digits
    THEN [prefix |-> buf, gomaxprocs |-> <<>>]
    ELSE splitScan(buf, i - 1)

splitGomaxprocs(buf) == splitScan(buf, Len(buf) - 1)

\* the loop of NameParts over buf from index i (0-based): the nameParts
RECURSIVE partsLoop(_, _, _, _)
partsLoop(buf, i, prev, nameParts) ==
    IF i >= Len(buf) THEN Append(nameParts, SubSeq(buf, prev + 1, Len(buf)))
    ELSE IF buf[i + 1] = "/"
    THEN partsLoop(buf, i + 1, i, Append(nameParts, SubSeq(buf, prev + 1, i)))
    ELSE partsLoop(buf, i + 1, prev, nameParts)

\* NameParts: [baseName, parts]
NamePartsOf(name) ==
    LET sp == splitGomaxprocs(name)
        np == partsLoop(sp.prefix, 0, 0, <<>>)
        all == IF sp.gomaxprocs # <<>> THEN Append(np, sp.gomaxprocs) ELSE np
    IN  [baseName |-> all[1], parts |-> Tail(all)]

NameStart ==
    /\ fullName \in FullNames
    /\ nparts = [called |-> FALSE]
    /\ result = [FileConfig |-> <<>>, len |-> 0, configPos |-> NilMap]
    /\ rhist = [last |-> <<>>, op |-> [name |-> "none"], dels |-> {}]

\* NameParts(fullName)
NameParts ==
    /\ ~nparts.called
    /\ nparts' = [called |-> TRUE, ret |-> NamePartsOf(fullName)]
    /\ UNCHANGED <<result, rhist, fullName>>

NameInit == NameStart /\ CSIdle /\ ParseIdle /\ FilterIdle /\ SchemaIdle /\ OrderIdle /\ WriterIdle /\ PFCIdle

NameNext == NameParts

SpecName ==
    NameInit /\ [][NameNext /\ UNCHANGED <<csVars, parseVars, filterVars, schemaVars, orderVars, writerVars, pfcVars>>]_vars

\* a part of the form -N: a `-` followed by one or more digits
IsProcsPart(part) ==
    /\ Len(part) >= 2
    /\ part[1] = "-"
    /\ \A i \in 2 .. Len(part) : part[i] \in Digits

\* the name ends in `-` followed by one or more digits
EndsInProcs(name) == \E k \in 1 .. Len(name) : IsProcsPart(SubSeq(name, k, Len(name)))

\* C19: the base name and the parts NameParts returns concatenate to the
\* full name; the last part is a -N part exactly when the name ends in `-`
\* followed by one or more digits, and every other part begins with `/`.
C19_NameParts ==
    nparts.called =>
        LET base  == nparts.ret.baseName
            parts == nparts.ret.parts
            procs == parts # <<>> /\ IsProcsPart(parts[Len(parts)])
        IN  /\ Concat(<<base>> \o parts) = fullName
            /\ procs <=> EndsInProcs(fullName)
            /\ \A i \in 1 .. Len(parts) :
                  (i < Len(parts) \/ ~procs) => (parts[i] # <<>> /\ parts[i][1] = "/")

\* NameParts split a name with a sub-benchmark part and a GOMAXPROCS part
C19_Witness ==
    /\ nparts.called
    /\ Len(nparts.ret.parts) >= 2
    /\ IsProcsPart(nparts.ret.parts[Len(nparts.ret.parts)])
    /\ nparts.ret.baseName # <<>>

----------------------------------------------------------------------------
(* builtinOrders["numeric"] on any two values (schema.go)                  *)

NumChars == {"0", "1", "2", ".", "-", "x"}

\* the values of up to MaxNum characters
NumValues == UNION {[1 .. n -> NumChars] : n \in 0 .. MaxNum}

OrderStart ==
    /\ ordArgs \in NumValues \X NumValues
    /\ ordRet = [called |-> FALSE]

\* builtinOrders["numeric"](a, b) and builtinOrders["numeric"](b, a)
NumericOrder ==
    /\ ~ordRet.called
    /\ ordRet' = [called |-> TRUE, ab |-> numericLess(ordArgs[1], ordArgs[2]),
                  ba |-> numericLess(ordArgs[2], ordArgs[1])]
    /\ UNCHANGED ordArgs

OrderInit == OrderStart /\ CSIdle /\ ParseIdle /\ FilterIdle /\ SchemaIdle /\ ResultIdle /\ WriterIdle /\ PFCIdle

OrderNext == NumericOrder

SpecOrder ==
    OrderInit /\ [][OrderNext /\ UNCHANGED <<csVars, parseVars, filterVars, schemaVars, resultVars, writerVars, pfcVars>>]_vars

\* all the characters of u are digits
AllDigits(u) == \A i \in 1 .. Len(u) : u[i] \in Digits

\* a is a decimal numeral: an optional sign, then digits, or digits, a
\* point and digits, with a digit on at least one side of the point
IsNumeral(a) ==
    LET u == IF a # <<>> /\ a[1] = "-" THEN Tail(a) ELSE a
    IN  \/ u # <<>> /\ AllDigits(u)
        \/ \E k \in 1 .. Len(u) :
              /\ u[k] = "."
              /\ Len(u) >= 2
              /\ AllDigits(SubSeq(u, 1, k - 1))
              /\ AllDigits(SubSeq(u, k + 1, Len(u)))

\* the numeral a times 10^MaxNum, as an integer: the fraction is padded
\* with zeros to MaxNum digits and the point is left out
Scaled(a) ==
    LET u    == IF a[1] = "-" THEN Tail(a) ELSE a
        pts  == {i \in 1 .. Len(u) : u[i] = "."}
        nf   == IF pts = {} THEN 0 ELSE Len(u) - (CHOOSE i \in pts : TRUE)
        digs == SelectSeq(u, LAMBDA ch : ch # ".") \o [i \in 1 .. MaxNum - nf |-> "0"]
        v    == DecVal(digs)
    IN  IF a[1] = "-" THEN 0 - v ELSE v

\* C22: the numeric order compares two values as numbers when both are
\* numbers, as strings when neither is, and otherwise puts the value that
\* is a number before the one that is not.
C22_NumericOrder ==
    ordRet.called =>
        LET a == ordArgs[1]
            b == ordArgs[2]
        IN  /\ (IsNumeral(a) /\ IsNumeral(b)) =>
                  /\ ordRet.ab <=> Scaled(a) < Scaled(b)
                  /\ ordRet.ba <=> Scaled(b) < Scaled(a)
            /\ (~IsNumeral(a) /\ ~IsNumeral(b)) =>
                  /\ ordRet.ab <=> StrLess(a, b)
                  /\ ordRet.ba <=> StrLess(b, a)
            /\ (IsNumeral(a) /\ ~IsNumeral(b)) => (ordRet.ab /\ ~ordRet.ba)
            /\ (~IsNumeral(a) /\ IsNumeral(b)) => (~ordRet.ab /\ ordRet.ba)

\* the numeric order put the number 2 before the string `-`, which is
\* not a number and which the string order puts first
C22_Witness ==
    /\ ordRet.called
    /\ ordArgs = << <<"2">>, <<"-">> >>
    /\ StrLess(ordArgs[2], ordArgs[1])
    /\ ordRet.ab /\ ~ordRet.ba

\* the numeric order put 2 before 10, which the string order puts first
C22_Numbers ==
    /\ ordRet.called
    /\ ordArgs = << <<"1", "0">>, <<"2">> >>
    /\ StrLess(ordArgs[1], ordArgs[2])
    /\ ~ordRet.ab /\ ordRet.ba

----------------------------------------------------------------------------
(* benchfmt.Writer (src/unnamed/part_021, second version)                  *)

\* NewWriter
NewWriter == [first |-> TRUE, fileConfig |-> <<>>, order |-> <<>>]

\* the lines fmt.Fprintf writes for a file configuration
DeleteLine(key) == key \o <<":">>
ConfigLine(key, value) == key \o <<":", " ">> \o value

\* the benchmark line of the Results written: name One, 1 iteration, no values
BenchLine == <<"B", "e", "n", "c", "h", "m", "a", "r", "k", "O", "n", "e", " ", "1">>

\* s without its element at index i (0-based): the copy and reslice of
\* writeFileConfig
RemoveAt(s, i) == SubSeq(s, 1, i) \o SubSeq(s, i + 2, Len(s))

\* the first loop of writeFileConfig, from index i of w.order: [w, r, buf]
RECURSIVE knownLoop(_, _, _, _)
knownLoop(w, r, buf, i) ==
    IF i >= Len(w.order) THEN [w |-> w, r |-> r, buf |-> buf]
    ELSE LET key == w.order[i + 1]
             have == w.fileConfig[key]
             x == FileConfigIndex(r, key)
         IN  IF ~x.ok
             THEN knownLoop([w EXCEPT !.fileConfig = MapDelete(@, key),
                                      !.order = RemoveAt(@, i)],
                            x.r, Append(buf, DeleteLine(key)), i)
             ELSE IF have = x.r.FileConfig[x.pos + 1].Value
             THEN knownLoop(w, x.r, buf, i + 1)
             ELSE knownLoop([w EXCEPT !.fileConfig[key] = x.r.FileConfig[x.pos + 1].Value],
                            x.r, Append(buf, ConfigLine(key, x.r.FileConfig[x.pos + 1].Value)),
                            i + 1)

\* the second loop of writeFileConfig, from entry j of res.FileConfig: [w, buf]
RECURSIVE newLoop(_, _, _, _)
newLoop(w, r, buf, j) ==
    IF j > r.len THEN [w |-> w, buf |-> buf]
    ELSE LET cfg == r.FileConfig[j]
         IN  IF cfg.Key \in DOMAIN w.fileConfig THEN newLoop(w, r, buf, j + 1)
             ELSE newLoop([w EXCEPT !.fileConfig = (cfg.Key :> cfg.Value) @@ @,
                                    !.order = Append(@, cfg.Key)],
                          r, Append(buf, ConfigLine(cfg.Key, cfg.Value)), j + 1)

\* Writer.writeFileConfig: [w, r, buf]
writeFileConfig(w, r) ==
    LET w1 == [w EXCEPT !.first = TRUE]
        buf1 == IF w.first THEN <<>> ELSE << <<>> >>
        x == knownLoop(w1, r, buf1, 0)
        y == IF Cardinality(DOMAIN x.w.fileConfig) # x.r.len
             THEN newLoop(x.w, x.r, x.buf, 1)
             ELSE [w |-> x.w, buf |-> x.buf]
    IN  [w |-> y.w, r |-> x.r, buf |-> Append(y.buf, <<>>)]

\* mutant of differs: only the number of keys is compared
M_differs(w, r) == Cardinality(DOMAIN w.fileConfig) # r.len

\* the test Write makes before it calls writeFileConfig
differs(w, r) ==
    \/ Cardinality(DOMAIN w.fileConfig) # r.len
    \/ \E i \in 1 .. r.len :
          \/ r.FileConfig[i].Key \notin DOMAIN w.fileConfig
          \/ r.FileConfig[i].Value # w.fileConfig[r.FileConfig[i].Key]

\* Writer.Write: [w, r, out], out the lines given to the io.Writer
WriteOf(w, r) ==
    LET x == IF differs(w, r) THEN writeFileConfig(w, r) ELSE [w |-> w, r |-> r, buf |-> <<>>]
    IN  [w |-> [x.w EXCEPT !.first = FALSE], r |-> x.r, out |-> Append(x.buf, BenchLine)]

WriterStart ==
    /\ writer = NewWriter
    /\ wlog = [called |-> FALSE]

\* writer.Write(&result)
Write ==
    /\ \E x \in {WriteOf(writer, result)} :
          /\ writer' = x.w
          /\ result' = x.r
          /\ wlog' = [called |-> TRUE, before |-> writer, out |-> x.out,
                      res |-> SubSeq(result.FileConfig, 1, result.len)]
    /\ UNCHANGED <<rhist, fullName, nparts>>

WriterInit ==
    ResultStart /\ WriterStart /\ CSIdle /\ ParseIdle /\ FilterIdle /\ SchemaIdle /\ OrderIdle /\ PFCIdle

\* a Result that is changed by SetFileConfig, as the Reader does, and written
\* at any time
\* the values the keys of the Result are set to: "" deletes the key
WValues(key) == IF key = KeyA THEN RValues ELSE {<<>>, <<"1">>}

\* result.SetFileConfig(key, value) between two Writes
SetForWrite(key, value) ==
    /\ result' = SetFileConfigOf(result, key, value)
    /\ UNCHANGED <<rhist, fullName, nparts, writerVars>>

WriterNext ==
    \/ \E key \in RKeys : \E value \in WValues(key) : SetForWrite(key, value)
    \/ Write

SpecWriter ==
    WriterInit /\ [][WriterNext /\ UNCHANGED <<csVars, parseVars, filterVars, schemaVars, orderVars, pfcVars>>]_vars

\* res.FileConfig as a map from key to value
ConfigMap(fc) == [k \in {fc[i].Key : i \in DOMAIN fc} |-> (CHOOSE c \in Range(fc) : c.Key = k).Value]

\* the configuration lines among the lines written
ConfigLines(out) == SelectSeq(out, LAMBDA l : l # <<>> /\ l # BenchLine)

\* the lines a change of the file configuration from map old to map new asks for
LinesFor(old, new) ==
    {DeleteLine(k) : k \in DOMAIN old \ DOMAIN new}
    \cup {ConfigLine(k, new[k]) : k \in {k \in DOMAIN new : k \notin DOMAIN old \/ old[k] # new[k]}}

\* C26: after every Write(res) the file configuration the Writer remembers
\* equals res.FileConfig as a map, and its order list holds exactly those keys,
\* each once; the configuration lines of that Write are one `key:` line for
\* each remembered key absent from res and one `key: value` line for each
\* changed and each new key, and none when the configuration did not change
C26_WriterFileConfig ==
    wlog.called =>
        LET new == ConfigMap(wlog.res)
            old == wlog.before.fileConfig
            lines == ConfigLines(wlog.out)
        IN  /\ writer.fileConfig = new
            /\ Range(writer.order) = DOMAIN new
            /\ Len(writer.order) = Cardinality(DOMAIN new)
            /\ Range(lines) = LinesFor(old, new)
            /\ Len(lines) = Cardinality(LinesFor(old, new))
            /\ old = new => wlog.out = <<BenchLine>>

\* a Write that found one remembered key deleted, one changed and one new
C26_Witness ==
    /\ wlog.called
    /\ \E k \in DOMAIN wlog.before.fileConfig : DeleteLine(k) \in Range(wlog.out)
    /\ \E k \in DOMAIN wlog.before.fileConfig :
          /\ k \in DOMAIN writer.fileConfig
          /\ ConfigLine(k, writer.fileConfig[k]) \in Range(wlog.out)
    /\ \E k \in DOMAIN writer.fileConfig \ DOMAIN wlog.before.fileConfig :
          ConfigLine(k, writer.fileConfig[k]) \in Range(wlog.out)

\* a Write of the configuration that the Writer remembers already
C26_Unchanged ==
    /\ wlog.called
    /\ wlog.before.fileConfig # <<>>
    /\ wlog.before.fileConfig = writer.fileConfig
    /\ wlog.out = <<BenchLine>>

----------------------------------------------------------------------------
(* NewConfigHeader (header.go)                                             *)

ConfigHeader(field, start, len, value) ==
    [Field |-> field, Start |-> start, Len |-> len, Value |-> value]

\* mutant of headerCell: a Config with the value of the last node of the
\* level joins it, whatever its parent
M_headerCell(level, node, i, pos, val) ==
    IF level # <<>> /\ val = level[Len(level)].Value
    THEN [level EXCEPT ![Len(level)].Len = @ + 1]
    ELSE Append(level, ConfigHeader(i, pos, 1, val))

\* the body of the innermost loop: the Config at pos with value val joins
\* node, the last node of the level, or starts a new one; node = nil before
\* the first Config of a parent
headerCell(level, node, i, pos, val) ==
    IF node # nil /\ val = level[node].Value
    THEN [level EXCEPT ![node].Len = @ + 1]
    ELSE Append(level, ConfigHeader(i, pos, 1, val))

\* the loop over the Configs of one parent, from its j-th (0-based)
RECURSIVE cellLoop(_, _, _, _, _, _, _, _)
cellLoop(ss, configs, field, i, parent, j, level, node) ==
    IF j >= parent.Len THEN level
    ELSE Only({cellLoop(ss, configs, field, i, parent, j + 1, l2, Len(l2))
               : l2 \in {headerCell(level, node, i, parent.Start + j,
                                    Config_Get(ss, configs[parent.Start + j + 1], field).ret)}})

\* the loop over the nodes of the previous level, from its p-th
RECURSIVE parentLoop(_, _, _, _, _, _, _)
parentLoop(ss, configs, field, i, prevLevel, p, level) ==
    IF p > Len(prevLevel) THEN level
    ELSE Only({parentLoop(ss, configs, field, i, prevLevel, p + 1, l2)
               : l2 \in {cellLoop(ss, configs, field, i, prevLevel[p], 0, level, nil)}})

\* the loop over the fields, from field i (0-based)
RECURSIVE levelLoop(_, _, _, _, _, _)
levelLoop(ss, configs, fields, i, prevLevel, levels) ==
    IF i >= Len(fields) THEN levels
    ELSE Only({levelLoop(ss, configs, fields, i + 1, l2, Append(levels, l2))
               : l2 \in {parentLoop(ss, configs, fields[i + 1], i, prevLevel, 1, <<>>)}})

\* NewConfigHeader: nil, or the levels; with Configs that are all zero the
\* common Schema is nil, and reading its fields dereferences nil
NewConfigHeaderOf(ss, configs) ==
    IF Len(configs) = 0 THEN Returns([isNil |-> TRUE, levels |-> <<>>])
    ELSE Only({IF cs.panic \/ cs.ret = nil THEN Panics
               ELSE Returns([isNil |-> FALSE,
                             levels |-> levelLoop(ss, configs,
                                           [n \in DOMAIN flat(ss[cs.ret], Root) |->
                                              [s |-> cs.ret, n |-> flat(ss[cs.ret], Root)[n]]],
                                           0, <<ConfigHeader(-1, 0, Len(configs), <<>>)>>, <<>>)])
               : cs \in {commonSchema(configs)}})

HProjs == {PConfig, PAlpha, PConfigB}

HResults ==
    {r \in SResults : r.FileConfig \in { <<FC(KeyA, <<"1">>)>>,
                                         <<FC(KeyA, <<"1", "0">>)>>,
                                         <<FC(KeyA, <<"1">>), FC(KeyB, <<"0">>)>>,
                                         <<FC(KeyB, <<"2">>), FC(KeyA, <<"x">>)>> }}

\* NewConfigHeader(configs)
NewConfigHeader(configs) ==
    /\ clog = NoCall
    /\ clog' = [op |-> "NewConfigHeader", args |-> configs,
                out |-> NewConfigHeaderOf(schemas, configs)]
    /\ UNCHANGED <<configSeed, pp, schemas, perrs, plog, lessTab>>

\* one Schema, Project calls on it, and NewConfigHeader on slices of its
\* Configs and the zero Config
HeaderNext ==
    \/ \E proj \in HProjs : perrs = <<>> /\ ParseProj(proj)
    \/ \E k \in DOMAIN schemas, r \in HResults : Project(k, r)
    \/ \E n \in 0 .. MaxHeader : \E configs \in [1 .. n -> Configs] : NewConfigHeader(configs)

SpecHeader ==
    SchemaInit /\ [][HeaderNext /\ UNCHANGED <<csVars, parseVars, filterVars, resultVars, orderVars, writerVars, pfcVars>>]_vars

\* the nodes of a level are contiguous, disjoint and in order, and cover n
\* Configs
Subdivides(level, n) ==
    /\ level # <<>>
    /\ level[1].Start = 0
    /\ \A c \in 2 .. Len(level) : level[c].Start = level[c - 1].Start + level[c - 1].Len
    /\ \A c \in DOMAIN level : level[c].Len >= 1
    /\ level[Len(level)].Start + level[Len(level)].Len = n

\* node lies inside one node of level
Inside(node, level) ==
    \E c \in DOMAIN level :
        level[c].Start <= node.Start /\ node.Start + node.Len <= level[c].Start + level[c].Len

\* C27: for a non-empty slice of Configs of one Schema, NewConfigHeader
\* returns one level per field of the Schema; the nodes of a level are
\* contiguous, disjoint and in order from Start 0 and cover all the Configs,
\* every node of level i has Field i, all Configs under a node have the
\* node's Value for that field, and every node lies inside one node of the
\* level above; for an empty slice it returns nil
C27_ConfigHeader ==
    clog.op = "NewConfigHeader" =>
        LET configs == clog.args
        IN  /\ configs = <<>> => clog.out = Returns([isNil |-> TRUE, levels |-> <<>>])
            /\ (configs # <<>> /\ \A c \in Range(configs) : c # ZeroConfig) =>
                  LET s == schemas[configs[1].s]
                      fields == flat(s, Root)
                  IN  /\ ~clog.out.panic
                      /\ ~clog.out.ret.isNil
                      /\ Len(clog.out.ret.levels) = Len(fields)
                      /\ \A i \in DOMAIN fields :
                            LET level == clog.out.ret.levels[i]
                            IN  /\ Subdivides(level, Len(configs))
                                /\ \A c \in DOMAIN level :
                                      /\ level[c].Field = i - 1
                                      /\ \A j \in level[c].Start + 1 .. level[c].Start + level[c].Len :
                                            valAt(Vals(schemas, configs[j]), s.nodes[fields[i]].idx)
                                               = level[c].Value
                                      /\ i > 1 => Inside(level[c], clog.out.ret.levels[i - 1])

\* a header of three Configs of two fields: two nodes on the first level, and
\* on the second two adjacent nodes of one Value under different parents
C27_Witness ==
    /\ clog.op = "NewConfigHeader"
    /\ Len(clog.args) = 3
    /\ ~clog.out.panic
    /\ Len(clog.out.ret.levels) = 2
    /\ Len(clog.out.ret.levels[1]) = 2
    /\ \E c \in 2 .. Len(clog.out.ret.levels[2]) :
          clog.out.ret.levels[2][c].Value = clog.out.ret.levels[2][c - 1].Value

\* NewConfigHeader of no Configs returned nil
C27_None ==
    /\ clog.op = "NewConfigHeader"
    /\ clog.args = <<>>
    /\ clog.out = Returns([isNil |-> TRUE, levels |-> <<>>])

----------------------------------------------------------------------------
(* Config.Tuple and Config.TupleLen (src/unnamed/part_010)                 *)

\* Config.IsKeyVal, on the Configs cs
IsKeyVal(cs, c) == c # nil /\ cs[c].elt = nil

\* the loop of Config.Tuple: out[i] is filled from the last index down;
\* reading the elt of a nil prefix dereferences nil
RECURSIVE tupleLoop(_, _, _, _)
tupleLoop(cs, c, out, i) ==
    IF i < 0 THEN Returns([isNil |-> FALSE, elts |-> out])
    ELSE IF c = nil THEN Panics
    ELSE tupleLoop(cs, cs[c].prefix, [out EXCEPT ![i + 1] = cs[c].elt], i - 1)

\* Config.Tuple: an empty slice for the nil Config, nil for a key/value Config
Config_Tuple(cs, c) ==
    IF c = nil THEN Returns([isNil |-> FALSE, elts |-> <<>>])
    ELSE IF IsKeyVal(cs, c) THEN Returns([isNil |-> TRUE, elts |-> <<>>])
    ELSE tupleLoop(cs, c, [i \in 1 .. cs[c].tupleLen |-> nil], cs[c].tupleLen - 1)

\* Config.TupleLen
TupleLen(cs, c) == IF c = nil THEN 0 ELSE cs[c].tupleLen

\* the Configs that Append allocated
TupleNodes == {h \in 1 .. Len(cfgs) : cfgs[h].key = <<>>}

\* the elements of tuple h, read along its prefixes
RECURSIVE EltsOf(_)
EltsOf(h) == IF h = nil THEN <<>> ELSE Append(EltsOf(cfgs[h].prefix), cfgs[h].elt)

\* Append(base, elts...) returns the tuple of the elements of base followed by
\* elts, there is one tuple Config for each sequence of elements, and it is the
\* one Tuple returned for that sequence, if it was called for it; the length
\* of a tuple is one more than that of its prefix; Tuple() of what Tuple(elts...)
\* returned is elts, where elts may end in the nil Config only if withNil
TupleLaws(withNil) ==
    /\ csLast.op \in {"Append", "Tuple"} =>
          /\ csLast.ret \in TupleNodes \cup {nil}
          /\ EltsOf(csLast.ret) = EltsOf(csLast.base) \o csLast.elts
          /\ \A e0 \in DOMAIN tupHist :
                (csLast.base \in tupHist[e0] /\ (e0 \o csLast.elts) \in DOMAIN tupHist)
                    => tupHist[e0 \o csLast.elts] = {csLast.ret}
    /\ \A h1, h2 \in TupleNodes : EltsOf(h1) = EltsOf(h2) => h1 = h2
    /\ \A h \in TupleNodes : TupleLen(cfgs, h) = TupleLen(cfgs, cfgs[h].prefix) + 1
    /\ \A elts \in DOMAIN tupHist :
          (withNil \/ elts = <<>> \/ elts[Len(elts)] # nil) =>
              \A h \in tupHist[elts] :
                  Config_Tuple(cfgs, h) = Returns([isNil |-> FALSE, elts |-> elts])

\* C30: within one ConfigSet, Append(Append(base, x), y) returns the handle
\* of Append(base, x, y), and Tuple(e1..en) that of Append(nil, e1..en); the
\* TupleLen of every tuple Config is one more than that of its prefix, 0 for
\* the nil tuple; and Tuple(e1..en).Tuple() returns e1..en in order
C30_TupleAsClaimed == TupleLaws(TRUE)

\* the same, with Tuple() read back only for tuples that do not end in the nil
\* Config
C30_WhenLastEltNotNil == TupleLaws(FALSE)

\* Tuple(nil), the tuple of the empty tuple, was made, and its Tuple() is nil
C30_NilElt ==
    /\ <<nil>> \in DOMAIN tupHist
    /\ \E h \in tupHist[<<nil>>] :
          /\ TupleLen(cfgs, h) = 1
          /\ Config_Tuple(cfgs, h) = Returns([isNil |-> TRUE, elts |-> <<>>])

\* Append(base, y) on the base that Tuple(x) returned gave the handle that
\* Tuple(x, y) had returned, and its Tuple() is x, y
C30_Appended ==
    /\ csLast.op = "Append" /\ csLast.base # nil /\ Len(csLast.elts) = 1
    /\ csLast.elts[1] # nil
    /\ \E e0 \in DOMAIN tupHist :
          /\ csLast.base \in tupHist[e0]
          /\ (e0 \o csLast.elts) \in DOMAIN tupHist
          /\ Config_Tuple(cfgs, csLast.ret).ret.elts = e0 \o csLast.elts

----------------------------------------------------------------------------
(* ProjectFileConfig (projection.go)                                       *)

Star == <<"*">>

\* NewProjectFileConfig
NewProjectFileConfig(exclude) == [order |-> <<>>, known |-> {}, exclude |-> exclude]

\* config = cs.Append(config, cs.KeyVal(k, val)), on st = [cfgs, kvs, tuples,
\* config, pendingUnset]
appendKeyVal(st, k, val) ==
    Only({Only({[st EXCEPT !.cfgs = ap.cfgs, !.kvs = kv.kvs, !.tuples = ap.tuples,
                           !.config = ap.ret]
                : ap \in {AppendStep(kv.cfgs, st.tuples, st.config, <<kv.ret>>)}})
          : kv \in {KeyValStep(st.cfgs, st.kvs, k, val)}})

\* mutant of flushUnset: the pending unset keys are dropped
M_flushUnset(p, st, i) == [st EXCEPT !.pendingUnset = <<>>]

\* the loop of addElem over pendingUnset, from its i-th key, and its reset
RECURSIVE flushUnset(_, _, _)
flushUnset(p, st, i) ==
    IF i > Len(st.pendingUnset) THEN [st EXCEPT !.pendingUnset = <<>>]
    ELSE Only({flushUnset(p, st2, i + 1)
               : st2 \in {appendKeyVal(st, st.pendingUnset[i],
                                       IF st.pendingUnset[i] \in p.exclude THEN Star ELSE <<>>)}})

\* the closure addElem of Project
addElem(p, st, fCfg) ==
    IF fCfg.Value = <<>> THEN [st EXCEPT !.pendingUnset = Append(@, fCfg.Key)]
    ELSE Only({appendKeyVal(st2, fCfg.Key, IF fCfg.Key \in p.exclude THEN Star ELSE fCfg.Value)
               : st2 \in {flushUnset(p, st, 1)}})

\* the loop of Project over p.order, from its i-th key: [st, found]
RECURSIVE knownKeys(_, _, _, _, _)
knownKeys(p, r, st, i, found) ==
    IF i > Len(p.order) THEN [st |-> st, found |-> found]
    ELSE Only({IF ~x.ok
               THEN knownKeys(p, x.r, addElem(p, st, FC(p.order[i], <<>>)), i + 1, found)
               ELSE knownKeys(p, x.r, addElem(p, st, x.r.FileConfig[x.pos + 1]), i + 1, found + 1)
               : x \in {FileConfigIndex(r, p.order[i])}})

\* the loop of Project over r.FileConfig, from its i-th entry: [p, st]
RECURSIVE missedKeys(_, _, _, _)
missedKeys(p, r, st, i) ==
    IF i > r.len THEN [p |-> p, st |-> st]
    ELSE IF r.FileConfig[i].Key \in p.known THEN missedKeys(p, r, st, i + 1)
    ELSE Only({missedKeys(p2, r, addElem(p2, st, r.FileConfig[i]), i + 1)
               : p2 \in {[p EXCEPT !.order = Append(@, r.FileConfig[i].Key),
                                   !.known = @ \cup {r.FileConfig[i].Key}]}})

\* ProjectFileConfig.Project: [p, cfgs, kvs, tuples, ret]
ProjectFileConfigOf(p, cs, ks, ts, r) ==
    LET x == knownKeys(p, r, [cfgs |-> cs, kvs |-> ks, tuples |-> ts, config |-> nil,
                              pendingUnset |-> <<>>], 1, 0)
        y == IF x.found # r.len THEN missedKeys(p, r, x.st, 1) ELSE [p |-> p, st |-> x.st]
    IN  [p |-> y.p, cfgs |-> y.st.cfgs, kvs |-> y.st.kvs, tuples |-> y.st.tuples,
         ret |-> y.st.config]

\* the keys of the records and the values they take; "" is a deleted key
FileKeys == {KeyA, KeyB, KeyC}
FileValues(key) == IF key = KeyA THEN {<<"1">>} ELSE {<<>>, <<"2">>}

\* the file configurations of the records: any keys in any order
FileConfigs ==
    UNION {{fc \in [1 .. n -> [Key : FileKeys, Value : {<<>>, <<"1">>, <<"2">>}]] :
               /\ \A i \in 1 .. n : fc[i].Value \in FileValues(fc[i].Key)
               /\ \A i, j \in 1 .. n : fc[i].Key = fc[j].Key => i = j}
           : n \in 0 .. 3}

\* the projection excludes no key, or key c
PFCStart ==
    /\ pfc \in {NewProjectFileConfig({}), NewProjectFileConfig({KeyC})}
    /\ pfcLog = <<>>

\* pfc.Project(cs, r) for a record r with file configuration fc
ProjectFileConfig(fc) ==
    /\ Len(pfcLog) < MaxFileProjects
    /\ \E x \in {ProjectFileConfigOf(pfc, cfgs, kvs, tuples, Literal(fc))} :
          /\ pfc' = x.p
          /\ cfgs' = x.cfgs
          /\ kvs' = x.kvs
          /\ tuples' = x.tuples
          /\ pfcLog' = Append(pfcLog, [fc |-> fc, ret |-> x.ret, order |-> x.p.order])
    /\ UNCHANGED <<kvHist, tupHist, csLast>>

PFCInit ==
    CSStart /\ PFCStart /\ ParseIdle /\ FilterIdle /\ SchemaIdle /\ ResultIdle /\ OrderIdle /\ WriterIdle

PFCNext == \E fc \in FileConfigs : ProjectFileConfig(fc)

SpecFileConfig ==
    PFCInit /\ [][PFCNext /\ UNCHANGED <<parseVars, filterVars, schemaVars, resultVars, orderVars, writerVars>>]_vars

\* the distinct file keys of the records of calls 1 .. j, in the order in which
\* they were first observed
RECURSIVE Observed(_)
Observed(j) ==
    IF j = 0 THEN <<>>
    ELSE LET before == Observed(j - 1)
             fc == pfcLog[j].fc
         IN  before \o SelectSeq([i \in DOMAIN fc |-> fc[i].Key], LAMBDA k : k \notin Range(before))

\* the value of key in the file configuration fc, "" when it has none
FileValue(fc, key) ==
    IF \E i \in DOMAIN fc : fc[i].Key = key
    THEN (CHOOSE c \in Range(fc) : c.Key = key).Value ELSE <<>>

\* the <<key, value>> pairs of the tuple that call j returned
Pairs(j) ==
    LET t == Config_Tuple(cfgs, pfcLog[j].ret).ret.elts
    IN  [i \in DOMAIN t |-> <<cfgs[t[i]].key, cfgs[t[i]].val>>]

\* the number of keys up to the last of keys whose value is set in fc
LastSet(keys, fc) ==
    LET at == {i \in DOMAIN keys : FileValue(fc, keys[i]) # <<>>}
    IN  IF at = {} THEN 0 ELSE CHOOSE i \in at : \A k \in at : k <= i

\* C28: over any Project calls of one ProjectFileConfig, the i-th element of
\* every tuple returned has the i-th distinct file key the projection ever
\* observed, and the tuple ends at the last key whose value is set, so that a
\* record with a key deleted and no later key set projects to the Config of a
\* record from before the key existed; an excluded key followed by a set key
\* has the value `*`, be its own value set or deleted
C28_FileConfigTuple ==
    \A j \in DOMAIN pfcLog :
        LET keys == Observed(j)
            fc == pfcLog[j].fc
        IN  /\ pfcLog[j].order = keys
            /\ ~Config_Tuple(cfgs, pfcLog[j].ret).panic
            /\ Pairs(j) = [i \in 1 .. LastSet(keys, fc) |->
                             <<keys[i], IF keys[i] \in pfc.exclude THEN Star
                                        ELSE FileValue(fc, keys[i])>>]
            /\ \A k \in DOMAIN pfcLog : Pairs(k) = Pairs(j) => pfcLog[k].ret = pfcLog[j].ret

\* a record with key b deleted and no later key set is projected to the
\* Config of a record from before b existed, and a later record in which the
\* excluded key c is deleted and b is set after it has c with the value `*`
C28_Witness ==
    /\ Len(pfcLog) = 3
    /\ pfc.order = <<KeyA, KeyC, KeyB>>
    /\ pfc.exclude = {KeyC}
    /\ pfcLog[1].fc = <<FC(KeyA, <<"1">>)>>
    /\ pfcLog[2].fc = <<FC(KeyA, <<"1">>), FC(KeyC, <<>>), FC(KeyB, <<>>)>>
    /\ pfcLog[2].ret = pfcLog[1].ret
    /\ pfcLog[3].fc = <<FC(KeyB, <<"2">>), FC(KeyC, <<>>), FC(KeyA, <<"1">>)>>
    /\ Pairs(3) = << <<KeyA, <<"1">> >>, <<KeyC, Star>>, <<KeyB, <<"2">> >> >>

=============================================================================
